---- MODULE Spec2Model ----
(***************************************************************************)
(* A model of toribot (AnomFIN/toribot): the bot coordinator with its poll *)
(* cycle and valuation cycle over the shared item store (toribot_base.py,  *)
(* duplicated in toribot.py), the retrying fetch client, the settings      *)
(* manager and the item store with its lock and its file.                  *)
(*                                                                         *)
(* The module holds several specifications over one set of variables:      *)
(*   Spec          the coordinator started once: poll cycle, valuation     *)
(*                 cycle, manual valuation passes, stop                    *)
(*   SpecLife      start() and stop() called in any order, and the cycles  *)
(*   FairSpec      start, cycles and stop with the fairness of the thread  *)
(*                 scheduler                                               *)
(*   SpecData      the running bot with the fetch and refresh-all routes   *)
(*   SpecSeq       poll passes run one after the other on one thread       *)
(*   SpecFetch     ToriFetcher._fetch_with_retries and its two callers     *)
(*   SpecSettings  SettingsManager.get_settings / update_settings          *)
(*   SpecStore     ProductDatabase under its lock, with the products file  *)
(*   SpecFail      the cycles with passes that raise, under the fairness   *)
(*                 of the thread scheduler                                 *)
(*   SpecNeed      get_items_needing_valuation on a loaded store           *)
(*   SpecStoreOps  the multi-page fetch and refresh-all routes             *)
(*   SpecVal       the valuation cycle and passes while the openai         *)
(*                 settings change                                         *)
(*   SpecImages    the images of extract_product_details, both files       *)
(*   SpecDetails   extract_product_details: fields, record, except path   *)
(*   SpecIds       extract_product_ids                                     *)
(*   SpecParse     the price parsing of valuate_item                       *)
(*   SpecCtrl      the terminal controller (toribot_controller.py)         *)
(*   SpecRetry     the passes of SpecSeq with the history of their detail  *)
(*                 fetches                                                 *)
(*   SpecDownload  _download_item_images and the upsert of a new item      *)
(*   SpecLocks     the store lock and the settings lock under threads      *)
(*   SpecHeap      a valuation pass over record objects                    *)
(*   SpecPages     fetch_multiple_pages called directly                    *)
(*   SpecStop      the bot started once and stopped during its passes,     *)
(*                 under the fairness of the thread scheduler              *)
(* Each specification leaves the variables of the others at their initial  *)
(* values.                                                                 *)
(***************************************************************************)
EXTENDS Integers, Sequences, FiniteSets, TLC

(***************************************************************************)
(* Bounds of the model.                                                    *)
(***************************************************************************)
\* ids that the listing page links to: "1", "2", ...
MaxIds == 2
\* calls of start() that spawn threads
MaxStarts == 2
\* calls of trigger_valuations that spawn a pass
MaxTriggers == 1
\* calls of the refresh-all route
MaxRefresh == 1
\* readings of the clock that take a new timestamp
MaxClock == 3
\* poll passes run one after the other in SpecSeq
MaxPasses == 3
\* the largest max_retries setting
MaxRetries == 3
\* the largest page number asked of fetch_listing_page
MaxPage == 2
\* calls of update_settings
MaxUpdates == 2
\* threads calling the store in SpecStore
MaxClients == 2
\* image tags with an acceptable URL on a detail page given to toribot_base.py
MaxUrls == 6
\* image tags with an acceptable URL on a detail page given to toribot.py
MaxAppUrls == 3
\* links on a listing page given to extract_product_ids
MaxLinks == 4
\* parts of an answer of the valuation API
MaxParts == 3
\* the largest price in an answer
MaxPrice == 1
\* bot processes launched by the controller
MaxLaunch == 3
\* the longest images list of a record handed to _download_item_images
MaxDl == 3
\* threads calling the store and the settings at the same time
MaxWorkers == 2
\* record objects created in a run: the stored ones, the copies, the replacements
MaxRefs == 5
\* the largest num_products (and the smallest, negated) of a direct call
MaxProducts == 4
\* the largest products_per_page
MaxPerPage == 3

Ids == 1..MaxIds
NoId == 0

VARIABLES
    \* ---- ToriBot (coordinator) ----
    running,        \* ToriBot.running
    stop_event,     \* ToriBot.stop_event (threading.Event): TRUE when set
    poll_thread,    \* ToriBot.poll_thread: index of the thread object, 0 = None
    valuation_thread, \* ToriBot.valuation_thread: index of the thread object, 0 = None
    ctl,            \* the thread calling start()/stop(): its position in them
    starts,         \* history: calls of start() that found the bot stopped
    ppc,            \* poll threads: position in _poll_loop/_poll_once
    ptodo,          \* poll threads: the rest of product_ids still to iterate
    pcur,           \* poll threads: product_id of the current iteration
    prec,           \* poll threads: item_data of the current iteration
    pchk,           \* history: what item_exists(product_id) returned for pcur
    vpc,            \* valuation threads: position in _valuation_loop/_run_valuations
    vlist,          \* valuation threads: items_to_valuate still to iterate
    triggers,       \* history: passes spawned by trigger_valuations
    last_trigger,   \* what the last trigger_valuations call returned ("success")
    rpc,            \* the refresh-all task: position in refresh_all_items
    rlist,          \* the refresh-all task: ids of the items still to iterate
    refreshes,      \* history: calls of the refresh-all route
    page_num,       \* the multi-page fetch task: page_num of fetch_multiple_pages
    num_pages,      \* the multi-page fetch task: num_pages of fetch_multiple_pages
    openai,         \* settings["openai"] as OpenAIValuator reads it: enabled, api_key
    listing,        \* the site: the item links of the listing page, in page order
    \* ---- history of the poll passes of SpecSeq ----
    seq_after,      \* the store after each finished pass
    seq_clean,      \* for each finished pass: no fetch of the pass failed
    seq_fail,       \* a fetch of the pass in progress failed
    \* ---- ProductDatabase (in memory) ----
    items,          \* ProductDatabase.data["items"]: the dict, in insertion order
    now,            \* the clock datetime.now() reads
    \* ---- ToriFetcher: one fetch_listing_page / fetch_item_page call ----
    max_retries,    \* settings["max_retries"] as _fetch_with_retries reads it
    fpc,            \* position of the call
    url,            \* the url the caller built
    attempt,        \* the loop variable of _fetch_with_retries
    response,       \* what _fetch_with_retries returned
    fetch_result,   \* what the caller returned: the text or None
    fetch_log,      \* history: the requests sent and the waits slept, in order
    \* ---- SettingsManager ----
    settings,       \* SettingsManager.settings: the top-level dict
    objs,           \* the nested dict objects the values of settings refer to
    settings_file,  \* the document in the settings file
    snap,           \* a dict a get_settings() call returned to a reader thread
    snap_taken,     \* the reader holds a snapshot
    snap_view,      \* history: every value readable through snap when it was taken
    upd_new,        \* history: new_settings of the last update_settings call
    upd_prev,       \* history: every value of the settings before that call
    upd_result,     \* what the last update_settings call returned or raised
    updates,        \* history: update_settings calls
    \* ---- ProductDatabase: its lock, its file, the threads calling it ----
    db_lock,        \* ProductDatabase.lock: the thread holding it, 0 = free
    meta_updated_at, \* ProductDatabase.data["meta"]["updated_at"]
    products_file,  \* the document in the products file
    cpc,            \* calling threads: position in add_item / item_exists
    carg,           \* calling threads: item_id and item_data of the call
    cret,           \* calling threads: what item_exists returned
    \* ---- ProductExtractor.extract_product_details (images) ----
    variant,        \* the file whose extractor runs: "base" (toribot_base.py), "app" (toribot.py)
    detail_html,    \* the detail page: its image tags [attr, url] in page order
    images,         \* the images list of the record the extractor returns
    xpc,            \* "idle", "call" before the extraction, "return" after it
    \* ---- ProductExtractor.extract_product_details (the whole function) ----
    dhtml,          \* html: what each pattern of each field finds on the page
    did,            \* item_id
    dlocals,        \* title, description, location, seller, images, errors
    details,        \* the record returned
    dpc,            \* position: "idle", "title", ..., "build", "except", "return"
    \* ---- ProductExtractor.extract_product_ids ----
    link_html,      \* the listing page: missing (None), or the ids of its links in page order
    product_ids,    \* the list extract_product_ids returned
    lpc,            \* "idle", "call" before the extraction, "return" after it
    \* ---- OpenAIValuator.valuate_item (price parsing) ----
    valuation_text, \* the answer of the API: its parts [label, num] in text order
    parsed,         \* the valuation dict returned
    tpc,            \* "idle", "call" before the parsing, "return" after it
    \* ---- ToribotController (toribot_controller.py) ----
    running_process, \* ToribotController.running_process: the process launched, NoProc = None
    running_bot,    \* ToribotController.running_bot: "Toribot", "Ostobotti", "None"
    alive,          \* the bot processes that are alive
    launched,       \* history: processes launched so far
    kpc,            \* the controller: "menu", "started" (in start_bot), "stopping" (in stop_bot)
    kret,           \* what the last start_bot / stop_bot did
    idled_by,       \* history: the operation that last returned the controller to idle
    \* ---- history of the poll passes of SpecRetry ----
    store_before,   \* the store when the pass in progress (or the last one) began
    listed,         \* its listing fetch: "none" (not yet), "ok", "failed"
    fetched_cur,    \* the ids whose detail page it has requested
    failed_cur,     \* the ids whose detail fetch failed in it
    failed_prev,    \* the ids whose detail fetch failed in the pass before it
    \* ---- ToriBot._poll_once after the extraction, _download_item_images ----
    download_enabled, \* settings["images"]["download_enabled"]
    max_images,     \* settings["images"]["max_images_per_item"]: [kind, n]
    item_images,    \* item_data["images"]: the URLs [n, ext] in list order
    idx,            \* the loop variable of _download_item_images
    downloaded,     \* the list downloaded of _download_item_images
    outcomes,       \* history: what download_image did for each URL tried
    image_files,    \* item_data["image_files"]
    upserted,       \* the record add_item received: [images, image_files], or NotUpserted
    ipc,            \* position: "idle", "settings", "slice", "loop", "add", "done", "raised"
    \* ---- the two locks and the threads that take them ----
    lock_holder,    \* for "store" (ProductDatabase.lock) and "settings" (SettingsManager.lock): the thread holding it, NoHolder = free
    wtodo,          \* worker threads: the steps of the running function still to take
    winside,        \* worker threads: the locked operation the thread is inside, or "none"
    wnet,           \* worker threads: the network call the thread is waiting for, or "none"
    \* ---- the record objects of the store and of a valuation pass ----
    heap,           \* the dict objects: heap[r] is the record object r holds
    store_refs,     \* ProductDatabase.data["items"]: for each id the object stored under it
    hlist,          \* items_to_valuate still to iterate: pairs [k, ref]
    hsnap,          \* history: for each id, the record its object held when the pass took its list
    hcopy,          \* updated_item: the object, NoRef before dict(item)
    hval,           \* valuation: what valuate_item returned
    hnow,           \* the clock datetime.now() reads
    hpc,            \* position of the pass: "idle", "foreach", "call", "copy", "set", "add"
    \* ---- ToriBot.fetch_multiple_pages(num_products), called directly ----
    m_products,     \* num_products
    m_per_page,     \* settings["products_per_page"]
    m_num_pages,    \* num_pages
    m_page,         \* page_num, 0 before the loop
    m_runs,         \* history: the _poll_once(page=...) calls made and how each ended
    m_result,       \* the dict returned: [success, pages_fetched], NoResult before
    mpc             \* position: "idle", "loop", "polling", "returned"

botVars == <<running, stop_event, poll_thread, valuation_thread, ctl, starts>>
pollVars == <<ppc, ptodo, pcur, prec, pchk>>
valVars == <<vpc, vlist, triggers, last_trigger>>
multiVars == <<page_num, num_pages>>
\* the background tasks of the routes
refreshVars == <<rpc, rlist, refreshes, multiVars>>
dbVars == <<items, now>>
envVars == <<openai, listing>>
coordVars == <<botVars, pollVars, valVars, refreshVars, envVars, dbVars>>

seqVars == <<seq_after, seq_clean, seq_fail>>

fetchVars == <<max_retries, fpc, url, attempt, response, fetch_result, fetch_log>>

setVars == <<settings, objs, settings_file, snap, snap_taken, snap_view,
            upd_new, upd_prev, upd_result, updates>>

storeVars == <<db_lock, meta_updated_at, products_file, cpc, carg, cret>>

imgVars == <<variant, detail_html, images, xpc>>

detVars == <<dhtml, did, dlocals, details, dpc>>

idsVars == <<link_html, product_ids, lpc>>

parseVars == <<valuation_text, parsed, tpc>>

ctrlVars == <<running_process, running_bot, alive, launched, kpc, kret, idled_by>>

retryVars == <<store_before, listed, fetched_cur, failed_cur, failed_prev>>

dlVars == <<download_enabled, max_images, item_images, idx, downloaded, outcomes,
           image_files, upserted, ipc>>

lockVars == <<lock_holder, wtodo, winside, wnet>>

heapVars == <<heap, store_refs, hlist, hsnap, hcopy, hval, hnow, hpc>>

pagesVars == <<m_products, m_per_page, m_num_pages, m_page, m_runs, m_result, mpc>>

\* the units added after the store
extraVars == <<detVars, idsVars, parseVars, ctrlVars, retryVars, dlVars, lockVars, heapVars, pagesVars>>

restOfDet == <<idsVars, parseVars, ctrlVars, retryVars, dlVars, lockVars, heapVars, pagesVars>>
restOfIds == <<detVars, parseVars, ctrlVars, retryVars, dlVars, lockVars, heapVars, pagesVars>>
restOfParse == <<detVars, idsVars, ctrlVars, retryVars, dlVars, lockVars, heapVars, pagesVars>>
restOfCtrl == <<detVars, idsVars, parseVars, retryVars, dlVars, lockVars, heapVars, pagesVars>>
restOfRetry == <<detVars, idsVars, parseVars, ctrlVars, dlVars, lockVars, heapVars, pagesVars>>
restOfDl == <<detVars, idsVars, parseVars, ctrlVars, retryVars, lockVars, heapVars, pagesVars>>
restOfLocks == <<detVars, idsVars, parseVars, ctrlVars, retryVars, dlVars, heapVars, pagesVars>>
restOfHeap == <<detVars, idsVars, parseVars, ctrlVars, retryVars, dlVars, lockVars, pagesVars>>
restOfPages == <<detVars, idsVars, parseVars, ctrlVars, retryVars, dlVars, lockVars, heapVars>>

unitVars == <<fetchVars, setVars, storeVars, imgVars, extraVars>>

vars == <<coordVars, seqVars, unitVars>>

(***************************************************************************)
(* Python dicts: a dict is the sequence of its entries [k, v] in insertion *)
(* order; d[k] = v replaces the value of an existing key in place and      *)
(* appends a new key.                                                      *)
(***************************************************************************)
DictKeys(d) == {d[i].k : i \in 1..Len(d)}

DictHas(d, k) == \E i \in 1..Len(d) : d[i].k = k

DictGet(d, k) == d[CHOOSE i \in 1..Len(d) : d[i].k = k].v

DictSet(d, k, v) ==
    IF DictHas(d, k)
    THEN [i \in 1..Len(d) |-> IF d[i].k = k THEN [k |-> k, v |-> v] ELSE d[i]]
    ELSE Append(d, [k |-> k, v |-> v])

(***************************************************************************)
(* ProductDatabase: each operation runs under ProductDatabase.lock, so it  *)
(* is one step here (SpecStore models the lock itself).                    *)
(***************************************************************************)
\* a poll pass that takes every listed id for new
item_exists_never(item_id) == FALSE

item_exists(item_id) == DictHas(items, item_id)

\* a store that keeps the last record only
add_item_only(item_id, item_data) == <<[k |-> item_id, v |-> item_data]>>

\* a store that keeps a list of records
add_item_append(item_id, item_data) ==
    Append(items, [k |-> item_id, v |-> item_data])

add_item(item_id, item_data) == DictSet(items, item_id, item_data)

get_all_items == [i \in 1..Len(items) |-> items[i].v]

\* a query that takes the records whose valuation failed as well
NeedsValuationOrFailed(item) ==
    item.valuation = "None" \/ item.valuation = "pending" \/ item.valuation = "error"

\* a query that takes only the records without a valuation
NeedsValuationAbsent(item) == item.valuation = "None"

\* not item.get("valuation") or item.get("valuation", {}).get("status") ==
\* "pending": the valuation of a record is None ("None") or a dict with the
\* status "pending", "completed" or "error"
NeedsValuation(item) == item.valuation = "None" \/ item.valuation = "pending"

get_items_needing_valuation ==
    SelectSeq(items, LAMBDA e : NeedsValuation(e.v))

(***************************************************************************)
(* ProductExtractor.extract_product_details(html, item_id): the record     *)
(* built from a detail page. page names the item whose detail page the     *)
(* html is (its title, description, ... are that page's).                  *)
(***************************************************************************)
extract_product_details(html, item_id) ==
    [id |-> item_id, page |-> html, discovered_at |-> now, updated_at |-> now,
     valuation |-> "None"]

NoRec == [id |-> NoId, page |-> NoId, discovered_at |-> 0, updated_at |-> 0,
          valuation |-> "None"]

\* ProductExtractor.extract_product_ids(html): list(set(matches)), each
\* linked id once, in the order of the set (the ids are interchangeable:
\* ascending, without loss)
RECURSIVE SortedSeq(_)
SortedSeq(S) ==
    IF S = {} THEN <<>>
    ELSE LET m == CHOOSE x \in S : \A y \in S : x <= y
         IN <<m>> \o SortedSeq(S \ {m})

extract_product_ids(html) == SortedSeq({html[i] : i \in 1..Len(html)})

\* a listing page that links to the ids 1..n, to id 1 twice
ListingPage(n) == [i \in 1..(n + 1) |-> IF i = n + 1 THEN 1 ELSE i]

\* ToriFetcher.fetch_item_page(item_id): the page of item_id, or None (0)
\* after all retries failed
fetch_item_page(item_id) == {item_id, NoId}

(***************************************************************************)
(* Threads. Poll thread k and valuation thread k are the ones the k-th     *)
(* effective start() spawns; poll thread FetchT is the request handler of  *)
(* /api/fetch running _poll_once inline; poll thread MultiT is the thread   *)
(* /api/fetch spawns for fetch_multiple_pages; the valuation threads after *)
(* the loops are the passes trigger_valuations spawns.                     *)
(***************************************************************************)
PollLoops == 1..MaxStarts
FetchT == MaxStarts + 1
MultiT == MaxStarts + 2
PollThreads == PollLoops \cup {FetchT, MultiT}
ValLoops == 1..MaxStarts
ValPasses == (MaxStarts + 1)..(MaxStarts + MaxTriggers)
ValThreads == ValLoops \cup ValPasses

SeqInit ==
    /\ seq_after = <<>>
    /\ seq_clean = <<>>
    /\ seq_fail = FALSE

CoordInit ==
    /\ running = FALSE
    /\ stop_event = FALSE
    /\ poll_thread = 0
    /\ valuation_thread = 0
    /\ ctl = "idle"
    /\ starts = 0
    /\ ppc = [p \in PollThreads |-> IF p \in PollLoops THEN "unborn" ELSE "idle"]
    /\ ptodo = [p \in PollThreads |-> <<>>]
    /\ pcur = [p \in PollThreads |-> NoId]
    /\ prec = [p \in PollThreads |-> NoRec]
    /\ pchk = [p \in PollThreads |-> FALSE]
    /\ vpc = [v \in ValThreads |-> "unborn"]
    /\ vlist = [v \in ValThreads |-> <<>>]
    /\ triggers = 0
    /\ last_trigger = "none"
    /\ rpc = "idle"
    /\ rlist = <<>>
    /\ refreshes = 0
    /\ page_num = 0
    /\ num_pages = 0
    /\ now = 1

(***************************************************************************)
(* ToriBot.start()                                                         *)
(***************************************************************************)
\* a start() that does not look at the running flag
StartGuardNever == FALSE

\* the guard of start(): "if self.running: return"
StartGuard == running

StartCall ==
    /\ ctl = "idle"
    /\ running \/ starts < MaxStarts
    /\ ctl' = "start"
    /\ UNCHANGED <<running, stop_event, poll_thread, valuation_thread, starts>>
    /\ UNCHANGED <<pollVars, valVars, refreshVars, envVars, dbVars>>

StartReturnRunning ==
    /\ ctl = "start"
    /\ StartGuard
    /\ ctl' = "idle"
    /\ UNCHANGED <<running, stop_event, poll_thread, valuation_thread, starts>>
    /\ UNCHANGED <<pollVars, valVars, refreshVars, envVars, dbVars>>

StartSetRunning ==
    /\ ctl = "start"
    /\ ~StartGuard
    /\ running' = TRUE
    /\ starts' = starts + 1
    /\ ctl' = "start_clear"
    /\ UNCHANGED <<stop_event, poll_thread, valuation_thread>>
    /\ UNCHANGED <<pollVars, valVars, refreshVars, envVars, dbVars>>

StartClear ==
    /\ ctl = "start_clear"
    /\ stop_event' = FALSE
    /\ ctl' = "start_poll"
    /\ UNCHANGED <<running, poll_thread, valuation_thread, starts>>
    /\ UNCHANGED <<pollVars, valVars, refreshVars, envVars, dbVars>>

\* Thread(target=self._poll_loop, daemon=True).start()
StartSpawnPoll ==
    /\ ctl = "start_poll"
    /\ poll_thread' = starts
    /\ ppc' = [ppc EXCEPT ![starts] = "loop"]
    /\ ctl' = "start_val"
    /\ UNCHANGED <<running, stop_event, valuation_thread, starts>>
    /\ UNCHANGED <<ptodo, pcur, prec, pchk, valVars, refreshVars, envVars, dbVars>>

\* Thread(target=self._valuation_loop, daemon=True).start()
StartSpawnVal ==
    /\ ctl = "start_val"
    /\ valuation_thread' = starts
    /\ vpc' = [vpc EXCEPT ![starts] = "loop"]
    /\ ctl' = "idle"
    /\ UNCHANGED <<running, stop_event, poll_thread, starts>>
    /\ UNCHANGED <<pollVars, vlist, triggers, last_trigger, refreshVars,
                   envVars, dbVars>>

(***************************************************************************)
(* ToriBot.stop()                                                          *)
(***************************************************************************)
\* the guard of stop(): "if not self.running: return"
StopGuard == ~running

StopCall ==
    /\ ctl = "idle"
    /\ ctl' = "stop"
    /\ UNCHANGED <<running, stop_event, poll_thread, valuation_thread, starts>>
    /\ UNCHANGED <<pollVars, valVars, refreshVars, envVars, dbVars>>

StopReturnStopped ==
    /\ ctl = "stop"
    /\ StopGuard
    /\ ctl' = "idle"
    /\ UNCHANGED <<running, stop_event, poll_thread, valuation_thread, starts>>
    /\ UNCHANGED <<pollVars, valVars, refreshVars, envVars, dbVars>>

StopClearRunning ==
    /\ ctl = "stop"
    /\ ~StopGuard
    /\ running' = FALSE
    /\ ctl' = "stop_set"
    /\ UNCHANGED <<stop_event, poll_thread, valuation_thread, starts>>
    /\ UNCHANGED <<pollVars, valVars, refreshVars, envVars, dbVars>>

StopSetEvent ==
    /\ ctl = "stop_set"
    /\ stop_event' = TRUE
    /\ ctl' = "stop_join"
    /\ UNCHANGED <<running, poll_thread, valuation_thread, starts>>
    /\ UNCHANGED <<pollVars, valVars, refreshVars, envVars, dbVars>>

\* "if self.poll_thread: self.poll_thread.join(timeout=5)" and the same for
\* valuation_thread: each join returns when its thread has ended, or after
\* the timeout with the thread still alive
StopJoin ==
    /\ ctl = "stop_join"
    /\ ctl' = "idle"
    /\ UNCHANGED <<running, stop_event, poll_thread, valuation_thread, starts>>
    /\ UNCHANGED <<pollVars, valVars, refreshVars, envVars, dbVars>>

(***************************************************************************)
(* ToriBot._poll_loop and ToriBot._poll_once                               *)
(***************************************************************************)
\* the loop condition of _poll_loop and _valuation_loop
LoopCondition == running /\ ~stop_event

PollLoopCheck(p) ==
    /\ ppc[p] = "loop"
    /\ ppc' = [ppc EXCEPT ![p] = IF LoopCondition THEN "listing" ELSE "done"]
    /\ UNCHANGED <<ptodo, pcur, prec, pchk>>
    /\ UNCHANGED <<botVars, valVars, refreshVars, envVars, dbVars>>

\* a loop without the try/except: the thread ends
PassEndDies(p) == "done"

\* where a thread goes when its _poll_once returns or raises: the loop's
\* wait, the next page of fetch_multiple_pages, or the request handler's
\* return
PassEnd(p) == IF p \in PollLoops THEN "wait"
              ELSE IF p = MultiT THEN "page" ELSE "idle"

\* html = self.fetcher.fetch_listing_page(page); "if not html: return";
\* product_ids = ProductExtractor.extract_product_ids(html)
PollListing(p) ==
    /\ ppc[p] = "listing"
    /\ \E ok \in BOOLEAN :
         IF ok
         THEN /\ ptodo' = [ptodo EXCEPT ![p] = extract_product_ids(listing)]
              /\ ppc' = [ppc EXCEPT ![p] = "foreach"]
         ELSE /\ ptodo' = ptodo
              /\ ppc' = [ppc EXCEPT ![p] = PassEnd(p)]
    /\ UNCHANGED <<pcur, prec, pchk>>
    /\ UNCHANGED <<botVars, valVars, refreshVars, envVars, dbVars>>

\* "for product_id in product_ids: if not self.database.item_exists(product_id):"
PollForEach(p) ==
    /\ ppc[p] = "foreach"
    /\ IF ptodo[p] = <<>>
       THEN /\ ppc' = [ppc EXCEPT ![p] = PassEnd(p)]
            /\ UNCHANGED <<ptodo, pcur, pchk>>
       ELSE LET product_id == Head(ptodo[p]) IN
            /\ ptodo' = [ptodo EXCEPT ![p] = Tail(@)]
            /\ IF item_exists(product_id)
               THEN UNCHANGED <<ppc, pcur, pchk>>
               ELSE /\ ppc' = [ppc EXCEPT ![p] = "detail"]
                    /\ pcur' = [pcur EXCEPT ![p] = product_id]
                    /\ pchk' = [pchk EXCEPT ![p] = DictHas(items, product_id)]
    /\ UNCHANGED prec
    /\ UNCHANGED <<botVars, valVars, refreshVars, envVars, dbVars>>

\* a pass that gives up at the first detail page it cannot fetch (return)
AfterFailedDetailReturn(p) == PassEnd(p)

\* "if not item_html: ... continue": the loop goes on with the next id
AfterFailedDetail(p) == "foreach"

\* item_html = self.fetcher.fetch_item_page(product_id); "if not item_html:
\* continue"; item_data = extract_product_details(item_html, product_id)
PollDetail(p) ==
    /\ ppc[p] = "detail"
    /\ \E item_html \in fetch_item_page(pcur[p]) :
         IF item_html = NoId
         THEN /\ ppc' = [ppc EXCEPT ![p] = AfterFailedDetail(p)]
              /\ pcur' = [pcur EXCEPT ![p] = NoId]
              /\ UNCHANGED <<prec, now>>
         ELSE /\ now <= MaxClock
              /\ prec' = [prec EXCEPT ![p] = extract_product_details(item_html, pcur[p])]
              /\ now' = now + 1
              /\ ppc' = [ppc EXCEPT ![p] = "upsert"]
              /\ pcur' = pcur
    /\ UNCHANGED <<ptodo, pchk, items>>
    /\ UNCHANGED <<botVars, valVars, refreshVars, envVars>>

\* self.database.add_item(product_id, item_data)
PollUpsert(p) ==
    /\ ppc[p] = "upsert"
    /\ items' = add_item(pcur[p], prec[p])
    /\ ppc' = [ppc EXCEPT ![p] = "foreach"]
    /\ pcur' = [pcur EXCEPT ![p] = NoId]
    /\ prec' = [prec EXCEPT ![p] = NoRec]
    /\ UNCHANGED <<ptodo, pchk, now>>
    /\ UNCHANGED <<botVars, valVars, refreshVars, envVars>>

\* self.stop_event.wait(interval): the interval elapses
PollWaitTimeout(p) ==
    /\ ppc[p] = "wait"
    /\ ppc' = [ppc EXCEPT ![p] = "loop"]
    /\ UNCHANGED <<ptodo, pcur, prec, pchk>>
    /\ UNCHANGED <<botVars, valVars, refreshVars, envVars, dbVars>>

\* a wait that sleeps through its interval (time.sleep)
WaitWokenNever == FALSE

\* Event.wait returns at once when the event is set
WaitWoken == stop_event

\* self.stop_event.wait(interval): the event is set
PollWaitWoken(p) ==
    /\ ppc[p] = "wait"
    /\ WaitWoken
    /\ ppc' = [ppc EXCEPT ![p] = "loop"]
    /\ UNCHANGED <<ptodo, pcur, prec, pchk>>
    /\ UNCHANGED <<botVars, valVars, refreshVars, envVars, dbVars>>

\* an unexpected exception raised somewhere inside _poll_once: the pass is
\* left where it is and the except clause of the caller is entered
PollRaise(p) ==
    /\ ppc[p] \in {"listing", "foreach", "detail", "upsert"}
    /\ ppc' = [ppc EXCEPT ![p] = "except"]
    /\ ptodo' = [ptodo EXCEPT ![p] = <<>>]
    /\ pcur' = [pcur EXCEPT ![p] = NoId]
    /\ prec' = [prec EXCEPT ![p] = NoRec]
    /\ UNCHANGED pchk
    /\ UNCHANGED <<botVars, valVars, refreshVars, envVars, dbVars>>

\* "except Exception as e: logger.error(...)"
PollExcept(p) ==
    /\ ppc[p] = "except"
    /\ ppc' = [ppc EXCEPT ![p] = PassEnd(p)]
    /\ UNCHANGED <<ptodo, pcur, prec, pchk>>
    /\ UNCHANGED <<botVars, valVars, refreshVars, envVars, dbVars>>

\* the /api/fetch route without num_products: bot._poll_once() in the handler
FetchRoute ==
    /\ ppc[FetchT] = "idle"
    /\ ppc' = [ppc EXCEPT ![FetchT] = "listing"]
    /\ UNCHANGED <<ptodo, pcur, prec, pchk>>
    /\ UNCHANGED <<botVars, valVars, refreshVars, envVars, dbVars>>

\* "products_per_page": 50
DefaultProductsPerPage == 50

\* num_pages = (num_products + products_per_page - 1) // products_per_page
NumPages(num_products, products_per_page) ==
    (num_products + products_per_page - 1) \div products_per_page

\* the /api/fetch route with num_products > 0: a thread is spawned for
\* bot.fetch_multiple_pages(num_products)
FetchRouteMulti ==
    /\ ppc[MultiT] = "idle"
    /\ \E num_products \in 1..(MaxPage * DefaultProductsPerPage) :
         num_pages' = NumPages(num_products, DefaultProductsPerPage)
    /\ page_num' = 0
    /\ ppc' = [ppc EXCEPT ![MultiT] = "page"]
    /\ UNCHANGED <<ptodo, pcur, prec, pchk, rpc, rlist, refreshes>>
    /\ UNCHANGED <<botVars, valVars, envVars, dbVars>>

\* "for page_num in range(1, num_pages + 1): self._poll_once(page=page_num)";
\* after the last page the thread ends
MultiNextPage ==
    /\ ppc[MultiT] = "page"
    /\ IF page_num < num_pages
       THEN /\ page_num' = page_num + 1
            /\ ppc' = [ppc EXCEPT ![MultiT] = "listing"]
            /\ UNCHANGED num_pages
       ELSE /\ page_num' = 0
            /\ num_pages' = 0
            /\ ppc' = [ppc EXCEPT ![MultiT] = "idle"]
    /\ UNCHANGED <<ptodo, pcur, prec, pchk, rpc, rlist, refreshes>>
    /\ UNCHANGED <<botVars, valVars, envVars, dbVars>>

(***************************************************************************)
(* OpenAIValuator.is_enabled() over settings["openai"]: the api key is      *)
(* empty (""), blank (" ") or a key ("sk").                                 *)
(***************************************************************************)
OpenAIOff == [enabled |-> FALSE, api_key |-> ""]
OpenAIOn == [enabled |-> TRUE, api_key |-> "sk"]
OpenAISettings == [enabled : BOOLEAN, api_key : {"", " ", "sk"}]

\* str.strip()
strip(str) == IF str = " " THEN "" ELSE str

\* a check of the enabled flag alone
is_enabled_flag == openai.enabled

\* openai_settings.get("enabled", False) and
\* openai_settings.get("api_key", "").strip() != ""
is_enabled == openai.enabled /\ strip(openai.api_key) # ""

(***************************************************************************)
(* ToriBot._valuation_loop, ToriBot._run_valuations, trigger_valuations    *)
(***************************************************************************)
ValLoopCheck(v) ==
    /\ vpc[v] = "loop"
    /\ vpc' = [vpc EXCEPT ![v] = IF LoopCondition THEN "enabled" ELSE "done"]
    /\ UNCHANGED <<vlist, triggers, last_trigger>>
    /\ UNCHANGED <<botVars, pollVars, refreshVars, envVars, dbVars>>

\* "if self.valuator.is_enabled(): self._run_valuations()"
ValLoopEnabled(v) ==
    /\ vpc[v] = "enabled"
    /\ vpc' = [vpc EXCEPT ![v] = IF is_enabled THEN "snapshot" ELSE "wait"]
    /\ UNCHANGED <<vlist, triggers, last_trigger>>
    /\ UNCHANGED <<botVars, pollVars, refreshVars, envVars, dbVars>>

\* where a thread goes when its _run_valuations returns: the loop's wait,
\* or the end of the thread trigger_valuations spawned
ValPassEnd(v) == IF v \in ValLoops THEN "wait" ELSE "done"

\* items_to_valuate = self.database.get_items_needing_valuation();
\* "if not items_to_valuate: return"
ValSnapshot(v) ==
    /\ vpc[v] = "snapshot"
    /\ vlist' = [vlist EXCEPT ![v] = get_items_needing_valuation]
    /\ vpc' = [vpc EXCEPT ![v] =
                 IF get_items_needing_valuation = <<>> THEN ValPassEnd(v) ELSE "foreach"]
    /\ UNCHANGED <<triggers, last_trigger>>
    /\ UNCHANGED <<botVars, pollVars, refreshVars, envVars, dbVars>>

\* a pass that never looks at the running flag
PassGuardAlways == TRUE

\* the check at the head of the loop over items_to_valuate:
\* "if not self.running: break"
PassGuard == running

\* "for item_id, item in items_to_valuate: if not self.running: break"
ValForEach(v) ==
    /\ vpc[v] = "foreach"
    /\ IF vlist[v] = <<>> \/ ~PassGuard
       THEN /\ vpc' = [vpc EXCEPT ![v] = ValPassEnd(v)]
            /\ vlist' = [vlist EXCEPT ![v] = <<>>]
       ELSE /\ vpc' = [vpc EXCEPT ![v] = "call"]
            /\ vlist' = vlist
    /\ UNCHANGED <<triggers, last_trigger>>
    /\ UNCHANGED <<botVars, pollVars, refreshVars, envVars, dbVars>>

\* valuate_item(item): "if not self.is_enabled(): return None", else the
\* request to the API goes out; on None the pass sleeps and takes the next item
ValCall(v) ==
    /\ vpc[v] = "call"
    /\ IF is_enabled
       THEN /\ vpc' = [vpc EXCEPT ![v] = "inflight"]
            /\ vlist' = vlist
       ELSE /\ vpc' = [vpc EXCEPT ![v] = "foreach"]
            /\ vlist' = [vlist EXCEPT ![v] = Tail(@)]
    /\ UNCHANGED <<triggers, last_trigger>>
    /\ UNCHANGED <<botVars, pollVars, refreshVars, envVars, dbVars>>

\* a pass that drops the result
updated_item_same(item, valuation) == item

\* the copy _run_valuations upserts: updated_item = dict(item);
\* updated_item["valuation"] = valuation; updated_item["updated_at"] = now
updated_item(item, valuation) ==
    [item EXCEPT !.valuation = valuation, !.updated_at = now]

\* the API call returns (status completed) or fails (status error);
\* self.database.add_item(item_id, updated_item)
ValReturn(v) ==
    /\ vpc[v] = "inflight"
    /\ now <= MaxClock
    /\ \E valuation \in {"completed", "error"} :
         items' = add_item(Head(vlist[v]).k, updated_item(Head(vlist[v]).v, valuation))
    /\ now' = now + 1
    /\ vlist' = [vlist EXCEPT ![v] = Tail(@)]
    /\ vpc' = [vpc EXCEPT ![v] = "foreach"]
    /\ UNCHANGED <<triggers, last_trigger>>
    /\ UNCHANGED <<botVars, pollVars, refreshVars, envVars>>

\* self.stop_event.wait(interval_minutes * 60): the interval elapses
ValWaitTimeout(v) ==
    /\ vpc[v] = "wait"
    /\ vpc' = [vpc EXCEPT ![v] = "loop"]
    /\ UNCHANGED <<vlist, triggers, last_trigger>>
    /\ UNCHANGED <<botVars, pollVars, refreshVars, envVars, dbVars>>

\* self.stop_event.wait(interval_minutes * 60): the event is set
ValWaitWoken(v) ==
    /\ vpc[v] = "wait"
    /\ WaitWoken
    /\ vpc' = [vpc EXCEPT ![v] = "loop"]
    /\ UNCHANGED <<vlist, triggers, last_trigger>>
    /\ UNCHANGED <<botVars, pollVars, refreshVars, envVars, dbVars>>

\* an unexpected exception raised by is_enabled() or by _run_valuations
\* outside the try of its loop body: the except clause of _valuation_loop is
\* entered; the thread of a triggered pass ends
ValRaise(v) ==
    /\ vpc[v] \in {"enabled", "snapshot", "foreach"}
    /\ vpc' = [vpc EXCEPT ![v] = IF v \in ValLoops THEN "except" ELSE "done"]
    /\ vlist' = [vlist EXCEPT ![v] = <<>>]
    /\ UNCHANGED <<triggers, last_trigger>>
    /\ UNCHANGED <<botVars, pollVars, refreshVars, envVars, dbVars>>

\* an unexpected exception raised inside the try of the loop body
\* (valuate_item, add_item): "except Exception as e: logger.error(...)" and
\* the next item
ValRaiseItem(v) ==
    /\ vpc[v] \in {"call", "inflight"}
    /\ vpc' = [vpc EXCEPT ![v] = "foreach"]
    /\ vlist' = [vlist EXCEPT ![v] = Tail(@)]
    /\ UNCHANGED <<triggers, last_trigger>>
    /\ UNCHANGED <<botVars, pollVars, refreshVars, envVars, dbVars>>

\* "except Exception as e: logger.error(...)" of _valuation_loop
ValExcept(v) ==
    /\ vpc[v] = "except"
    /\ vpc' = [vpc EXCEPT ![v] = ValPassEnd(v)]
    /\ UNCHANGED <<vlist, triggers, last_trigger>>
    /\ UNCHANGED <<botVars, pollVars, refreshVars, envVars, dbVars>>

\* trigger_valuations(): "if not self.valuator.is_enabled(): return
\* {success: False}", else Thread(target=self._run_valuations).start()
TriggerGuardAlways == TRUE

TriggerGuard == is_enabled

trigger_valuations ==
    /\ IF TriggerGuard
       THEN /\ triggers < MaxTriggers
            /\ vpc' = [vpc EXCEPT ![MaxStarts + triggers + 1] = "snapshot"]
            /\ triggers' = triggers + 1
            /\ last_trigger' = "started"
       ELSE /\ last_trigger' = "not_started"
            /\ UNCHANGED <<vpc, triggers>>
    /\ UNCHANGED vlist
    /\ UNCHANGED <<botVars, pollVars, refreshVars, envVars, dbVars>>

(***************************************************************************)
(* The /api/refresh-all route of toribot.py and its background task        *)
(***************************************************************************)
\* items = bot.database.get_all_items(); Thread(target=refresh_all_items)
refresh_all ==
    /\ rpc = "idle"
    /\ refreshes < MaxRefresh
    /\ refreshes' = refreshes + 1
    /\ rlist' = [i \in 1..Len(get_all_items) |-> get_all_items[i].id]
    /\ rpc' = "foreach"
    /\ UNCHANGED <<multiVars, botVars, pollVars, valVars, envVars, dbVars>>

\* "for item in items: product_id = item.get('id')"
RefreshForEach ==
    /\ rpc = "foreach"
    /\ rpc' = IF rlist = <<>> THEN "idle" ELSE "detail"
    /\ UNCHANGED <<rlist, refreshes>>
    /\ UNCHANGED <<multiVars, botVars, pollVars, valVars, envVars, dbVars>>

\* item_html = bot.fetcher.fetch_item_page(product_id); "if not item_html:
\* continue"; updated_data = extract_product_details(item_html, product_id);
\* bot.database.add_item(product_id, updated_data)
RefreshDetail ==
    /\ rpc = "detail"
    /\ \E item_html \in fetch_item_page(Head(rlist)) :
         IF item_html = NoId
         THEN UNCHANGED <<items, now>>
         ELSE /\ now <= MaxClock
              /\ items' = add_item(Head(rlist),
                                   extract_product_details(item_html, Head(rlist)))
              /\ now' = now + 1
    /\ rlist' = Tail(rlist)
    /\ rpc' = "foreach"
    /\ UNCHANGED refreshes
    /\ UNCHANGED <<multiVars, botVars, pollVars, valVars, envVars>>

(***************************************************************************)
(* The /api/settings route switching openai.enabled (or the api key)       *)
(***************************************************************************)
SetOpenAI ==
    /\ openai' = IF openai = OpenAIOn THEN OpenAIOff ELSE OpenAIOn
    /\ UNCHANGED <<botVars, pollVars, valVars, refreshVars, listing, dbVars>>

\* the /api/settings route writing openai.enabled and openai.api_key
SetOpenAIAny ==
    /\ openai' \in OpenAISettings \ {openai}
    /\ UNCHANGED <<botVars, pollVars, valVars, refreshVars, listing, dbVars>>

(***************************************************************************)
(* The steps of the threads                                                *)
(***************************************************************************)
\* start() called once, on the stopped bot
StartOnce ==
    \/ (StartCall /\ starts = 0) \/ StartSetRunning
    \/ StartClear \/ StartSpawnPoll \/ StartSpawnVal

Start ==
    \/ StartCall \/ StartReturnRunning \/ StartSetRunning
    \/ StartClear \/ StartSpawnPoll \/ StartSpawnVal

\* the steps inside stop(), after the call
StopRun == StopReturnStopped \/ StopClearRunning \/ StopSetEvent \/ StopJoin

Stop == StopCall \/ StopRun

PollStep(p) ==
    \/ PollListing(p) \/ PollForEach(p) \/ PollDetail(p) \/ PollUpsert(p)

PollLoopStep(p) ==
    \/ PollLoopCheck(p) \/ PollStep(p) \/ PollWaitWoken(p)

ValStep(v) ==
    \/ ValSnapshot(v) \/ ValForEach(v) \/ ValCall(v) \/ ValReturn(v)

ValLoopStep(v) ==
    \/ ValLoopCheck(v) \/ ValLoopEnabled(v) \/ ValStep(v) \/ ValWaitWoken(v)

RefreshStep == RefreshForEach \/ RefreshDetail

Loops ==
    \/ \E p \in PollLoops : PollLoopStep(p) \/ PollWaitTimeout(p)
    \/ \E v \in ValLoops : ValLoopStep(v) \/ ValWaitTimeout(v)

(***************************************************************************)
(* ToriFetcher: fetch_listing_page / fetch_item_page and the retry loop     *)
(* _fetch_with_retries they share. One call at a time; every request the    *)
(* session sends may succeed or fail (timeout, connection error, HTTP error *)
(* status: session.get or raise_for_status raises).                         *)
(***************************************************************************)
\* no page parameter (page=None)
NoPage == 0
Pages == {NoPage} \cup (1..MaxPage)

NoUrl == [path |-> "none", page |-> NoPage, item |-> NoId]

\* the listing url: the page parameter is added for a page above the first
ListingUrl(page) ==
    [path |-> "search",
     page |-> IF page # NoPage /\ page > 1 THEN page ELSE NoPage,
     item |-> NoId]

ItemUrl(item_id) == [path |-> "item", page |-> NoPage, item |-> item_id]

\* settings.get("max_retries", 2) of the default settings
DefaultMaxRetries == 2

FetchQuiet ==
    /\ fpc = "idle"
    /\ url = NoUrl
    /\ attempt = 0
    /\ response = "unset"
    /\ fetch_result = "unset"
    /\ fetch_log = <<>>

FetchEnter(u) ==
    /\ fpc \in {"idle", "done"}
    /\ url' = u
    /\ fpc' = "jitter"
    /\ attempt' = 0
    /\ response' = "unset"
    /\ fetch_result' = "unset"
    /\ fetch_log' = <<>>
    /\ UNCHANGED max_retries

FetchListingPageCall == \E page \in Pages : FetchEnter(ListingUrl(page))

FetchItemPageCall == \E item_id \in Ids : FetchEnter(ItemUrl(item_id))

\* self._add_jitter(), then _fetch_with_retries is entered
AddJitter ==
    /\ fpc = "jitter"
    /\ fpc' = "loop"
    /\ UNCHANGED <<max_retries, url, attempt, response, fetch_result, fetch_log>>

\* for attempt in range(max_retries + 1); a loop that runs out returns None
FetchLoop ==
    /\ fpc = "loop"
    /\ IF attempt < max_retries + 1
       THEN fpc' = "get" /\ UNCHANGED response
       ELSE fpc' = "return" /\ response' = "None"
    /\ UNCHANGED <<max_retries, url, attempt, fetch_result, fetch_log>>

\* if attempt < max_retries: another attempt follows the failed one
MoreAttemptsShort(a) == a < max_retries - 1

MoreAttempts(a) == a < max_retries

\* wait_time = (2 ** attempt) * 1
wait_time_flat(a) == 1

wait_time(a) == (2 ^ a) * 1

\* session.get(url, timeout) and raise_for_status()
FetchGet ==
    /\ fpc = "get"
    /\ \E ok \in BOOLEAN :
         /\ fetch_log' = Append(fetch_log, [ev |-> "get", ok |-> ok, t |-> 0])
         /\ IF ok
            THEN fpc' = "return" /\ response' = "Response"
            ELSE IF MoreAttempts(attempt)
                 THEN fpc' = "sleep" /\ UNCHANGED response
                 ELSE fpc' = "return" /\ response' = "None"
    /\ UNCHANGED <<max_retries, url, attempt, fetch_result>>

\* time.sleep(wait_time), then the next iteration
FetchSleep ==
    /\ fpc = "sleep"
    /\ fetch_log' = Append(fetch_log, [ev |-> "sleep", ok |-> FALSE, t |-> wait_time(attempt)])
    /\ attempt' = attempt + 1
    /\ fpc' = "loop"
    /\ UNCHANGED <<max_retries, url, response, fetch_result>>

\* if response: return response.text; return None
FetchReturn ==
    /\ fpc = "return"
    /\ fetch_result' = IF response = "Response" THEN "text" ELSE "None"
    /\ fpc' = "done"
    /\ UNCHANGED <<max_retries, url, attempt, response, fetch_log>>

(***************************************************************************)
(* SettingsManager. A JSON value is a record: a number [t = "num", n], the  *)
(* float NaN [t = "nan"] (json.loads reads the token NaN), a string         *)
(* [t = "str"] or an object [t = "dict", d]. The settings dict holds        *)
(* numbers and strings by value and a nested dict by reference              *)
(* [t = "ref", a]: a is the place of the dict object in objs. dict.copy()    *)
(* copies the top level only, so a copy shares the nested objects.          *)
(***************************************************************************)
NoObj == 0
EmptyDict == <<>>

Num(n) == [t |-> "num", n |-> n, d |-> EmptyDict]
NaN == [t |-> "nan", n |-> 0, d |-> EmptyDict]
Str == [t |-> "str", n |-> 0, d |-> EmptyDict]
Dict(d) == [t |-> "dict", n |-> 0, d |-> d]

\* "poll_interval_seconds": 60 and "request_timeout_seconds": 15
DefaultPollInterval == 60
DefaultTimeout == 15

\* the part of DEFAULT_SETTINGS the model keeps
DEFAULT_SETTINGS ==
    [poll_interval_seconds |-> [t |-> "num", n |-> DefaultPollInterval, a |-> NoObj],
     request_timeout_seconds |-> [t |-> "num", n |-> DefaultTimeout, a |-> NoObj],
     max_retries |-> [t |-> "num", n |-> DefaultMaxRetries, a |-> NoObj],
     openai |-> [t |-> "ref", n |-> 0, a |-> 1]]

DefaultObjs == <<[enabled |-> FALSE]>>

\* every value readable through the dict s, nested values included
View(s, o) ==
    [key \in DOMAIN s |->
        IF s[key].t = "ref" THEN Dict(o[s[key].a])
        ELSE [t |-> s[key].t, n |-> s[key].n, d |-> EmptyDict]]

\* isinstance(val, (int, float))
IsNumber(val) == val.t \in {"num", "nan"}

\* val < bound, for a number: every comparison with NaN is False
LessThan(val, bound) == val.t = "num" /\ val.n < bound

\* new_settings is a dict in insertion order: a sequence of entries [k, v]
HasKey(new_settings, key) == \E i \in 1..Len(new_settings) : new_settings[i].k = key
ValueOf(new_settings, key) ==
    new_settings[CHOOSE i \in 1..Len(new_settings) : new_settings[i].k = key].v

\* the two checks of update_settings: the ValueError it raises, if any
ValidationError(new_settings) ==
    IF /\ HasKey(new_settings, "poll_interval_seconds")
       /\ LET val == ValueOf(new_settings, "poll_interval_seconds")
          IN  ~IsNumber(val) \/ LessThan(val, 10)
    THEN "poll_interval_seconds must be >= 10"
    ELSE IF /\ HasKey(new_settings, "request_timeout_seconds")
            /\ LET val == ValueOf(new_settings, "request_timeout_seconds")
               IN  ~IsNumber(val) \/ LessThan(val, 1)
         THEN "request_timeout_seconds must be >= 1"
         ELSE "none"

\* d.update(e)
DictUpdate(d, e) ==
    [nk \in DOMAIN d \cup DOMAIN e |-> IF nk \in DOMAIN e THEN e[nk] ELSE d[nk]]

\* s[key] = val
DictPut(s, key, val) ==
    [x \in DOMAIN s \cup {key} |-> IF x = key THEN val ELSE s[x]]

\* for key in new_settings: ..., from entry i on. A dict value given for a
\* key whose stored value is no dict raises AttributeError (it has no
\* update method) and the loop stops where it is.
RECURSIVE ApplyUpdate(_, _, _, _)
ApplyUpdate(s, o, new_settings, i) ==
    IF i > Len(new_settings)
    THEN [settings |-> s, objs |-> o, raised |-> FALSE]
    ELSE LET key == new_settings[i].k
             val == new_settings[i].v
         IN  IF val.t = "dict" /\ key \in DOMAIN s
             THEN IF s[key].t = "ref"
                  THEN ApplyUpdate(s, [o EXCEPT ![s[key].a] = DictUpdate(@, val.d)],
                                   new_settings, i + 1)
                  ELSE [settings |-> s, objs |-> o, raised |-> TRUE]
             ELSE IF val.t = "dict"
                  THEN ApplyUpdate(DictPut(s, key, [t |-> "ref", n |-> 0, a |-> Len(o) + 1]),
                                   Append(o, val.d), new_settings, i + 1)
                  ELSE ApplyUpdate(DictPut(s, key, [t |-> val.t, n |-> val.n, a |-> NoObj]),
                                   o, new_settings, i + 1)

SetQuiet ==
    /\ settings = DEFAULT_SETTINGS
    /\ objs = DefaultObjs
    /\ settings_file = View(DEFAULT_SETTINGS, DefaultObjs)
    /\ snap = DEFAULT_SETTINGS
    /\ snap_taken = FALSE
    /\ snap_view = View(DEFAULT_SETTINGS, DefaultObjs)
    /\ upd_new = <<>>
    /\ upd_prev = View(DEFAULT_SETTINGS, DefaultObjs)
    /\ upd_result = "none"
    /\ updates = 0

\* with self.lock: return self.settings.copy()
get_settings ==
    /\ snap' = settings
    /\ snap_taken' = TRUE
    /\ snap_view' = View(settings, objs)
    /\ UNCHANGED <<settings, objs, settings_file, upd_new, upd_prev, upd_result, updates>>

\* the whole of update_settings, under the lock: the checks, the loop, and
\* _save_settings, which logs a failed write and goes on
update_settings(new_settings) ==
    /\ updates < MaxUpdates
    /\ updates' = updates + 1
    /\ upd_new' = new_settings
    /\ upd_prev' = View(settings, objs)
    /\ IF ValidationError(new_settings) # "none"
       THEN /\ upd_result' = "ValueError"
            /\ UNCHANGED <<settings, objs, settings_file>>
       ELSE LET r == ApplyUpdate(settings, objs, new_settings, 1)
            IN  /\ settings' = r.settings
                /\ objs' = r.objs
                /\ IF r.raised
                   THEN /\ upd_result' = "AttributeError"
                        /\ UNCHANGED settings_file
                   ELSE /\ upd_result' = "True"
                        /\ \E written \in BOOLEAN :
                             settings_file' = IF written THEN View(r.settings, r.objs)
                                              ELSE settings_file
    /\ UNCHANGED <<snap, snap_taken, snap_view>>

\* the values the updates of the model give to a key
UpdateValues(key) ==
    CASE key = "poll_interval_seconds" -> {Num(5), Num(30), Str, NaN}
      [] key = "request_timeout_seconds" -> {Num(0), Num(5)}
      [] key = "max_retries" -> {Num(5), Dict([enabled |-> TRUE])}
      [] key = "openai" -> {Dict([enabled |-> TRUE]), Num(0)}

UpdateKeys == DOMAIN DEFAULT_SETTINGS

UpdateEntries ==
    UNION {{[k |-> key, v |-> val] : val \in UpdateValues(key)} : key \in UpdateKeys}

\* the updates of the model: one key, or two keys in either order
Updates ==
    {<<e>> : e \in UpdateEntries}
    \cup {u \in {<<e1, e2>> : e1 \in UpdateEntries, e2 \in UpdateEntries} : u[1].k # u[2].k}

(***************************************************************************)
(* ProductDatabase under its lock, with the products file. A thread calls   *)
(* add_item or item_exists; `with self.lock` is a step that waits for the   *)
(* lock, the body follows statement by statement, and the lock is released  *)
(* at the end of the block.                                                 *)
(***************************************************************************)
Clients == 1..MaxClients
NoHolder == 0

\* the products file: not there, a whole document, or what a failed write left
MissingFile == [state |-> "missing", items |-> <<>>, updated_at |-> 0]
BrokenFile == [state |-> "broken", items |-> <<>>, updated_at |-> 0]
Document(its, at) == [state |-> "document", items |-> its, updated_at |-> at]

\* the records the threads of SpecStore store
StoreRec(item_id, valuation) ==
    [id |-> item_id, page |-> item_id, discovered_at |-> 0, updated_at |-> 0,
     valuation |-> valuation]

NoArg == [item_id |-> NoId, item_data |-> NoRec]

StoreQuiet ==
    /\ db_lock = NoHolder
    /\ meta_updated_at = 0
    /\ products_file = MissingFile
    /\ cpc = [c \in Clients |-> "idle"]
    /\ carg = [c \in Clients |-> NoArg]
    /\ cret = [c \in Clients |-> FALSE]

LockFree == db_lock = NoHolder

AddItemCall(c) ==
    /\ cpc[c] = "idle"
    /\ \E item_id \in Ids, valuation \in {"None", "completed"} :
         carg' = [carg EXCEPT ![c] = [item_id |-> item_id,
                                      item_data |-> StoreRec(item_id, valuation)]]
    /\ cpc' = [cpc EXCEPT ![c] = "add_lock"]
    /\ UNCHANGED <<db_lock, meta_updated_at, products_file, cret, dbVars>>

\* with self.lock:
AddAcquire(c) ==
    /\ cpc[c] = "add_lock"
    /\ LockFree
    /\ db_lock' = c
    /\ cpc' = [cpc EXCEPT ![c] = "add_replace"]
    /\ UNCHANGED <<meta_updated_at, products_file, carg, cret, dbVars>>

\* self.data["items"][str(item_id)] = item_data
AddReplace(c) ==
    /\ cpc[c] = "add_replace"
    /\ items' = add_item(carg[c].item_id, carg[c].item_data)
    /\ cpc' = [cpc EXCEPT ![c] = "add_save"]
    /\ UNCHANGED <<db_lock, meta_updated_at, products_file, carg, cret, now>>

\* self._save_database(): meta.updated_at is set, then the file is opened for
\* writing and the document dumped into it; an exception of either is logged
\* and not raised again. A failed open leaves the file as it is, a failed
\* dump leaves a part of the document in it.
SaveDatabase(c) ==
    /\ cpc[c] = "add_save"
    /\ now <= MaxClock
    /\ meta_updated_at' = now
    /\ now' = now + 1
    /\ \E outcome \in {"written", "open_failed", "dump_failed"} :
         products_file' = CASE outcome = "written" -> Document(items, now)
                            [] outcome = "open_failed" -> products_file
                            [] outcome = "dump_failed" -> BrokenFile
    /\ cpc' = [cpc EXCEPT ![c] = "add_unlock"]
    /\ UNCHANGED <<db_lock, carg, cret, items>>

\* the end of the with block; add_item returns
AddRelease(c) ==
    /\ cpc[c] = "add_unlock"
    /\ db_lock' = NoHolder
    /\ cpc' = [cpc EXCEPT ![c] = "idle"]
    /\ UNCHANGED <<meta_updated_at, products_file, carg, cret, dbVars>>

ItemExistsCall(c) ==
    /\ cpc[c] = "idle"
    /\ \E item_id \in Ids :
         carg' = [carg EXCEPT ![c] = [item_id |-> item_id, item_data |-> NoRec]]
    /\ cpc' = [cpc EXCEPT ![c] = "exists_lock"]
    /\ UNCHANGED <<db_lock, meta_updated_at, products_file, cret, dbVars>>

ItemExistsAcquire(c) ==
    /\ cpc[c] = "exists_lock"
    /\ LockFree
    /\ db_lock' = c
    /\ cpc' = [cpc EXCEPT ![c] = "exists_read"]
    /\ UNCHANGED <<meta_updated_at, products_file, carg, cret, dbVars>>

\* return str(item_id) in self.data["items"], and the lock is released
ItemExistsReturn(c) ==
    /\ cpc[c] = "exists_read"
    /\ cret' = [cret EXCEPT ![c] = item_exists(carg[c].item_id)]
    /\ db_lock' = NoHolder
    /\ cpc' = [cpc EXCEPT ![c] = "idle"]
    /\ UNCHANGED <<meta_updated_at, products_file, carg, dbVars>>

(***************************************************************************)
(* ProductExtractor.extract_product_details: the images of a detail page,   *)
(* in toribot_base.py and in toribot.py.  A URL is the sequence of its      *)
(* parts, "https://" first; a page is the sequence of its image tags, each  *)
(* the JSON key or HTML attribute and the URL it holds.                     *)
(***************************************************************************)
\* https://images/<n>.jpg
Url(n) == <<"https://", "images", "/", ToString(n), ".jpg">>
\* a site logo
LogoUrl == <<"https://", "images", "/", "logo", ".png">>
\* a URL without a file extension
PhotoUrl == <<"https://", "images", "/", "photo">>
\* a page whose name holds an image extension that is not its last
PageUrl == <<"https://", "images", "/", "1", ".jpg", ".html">>
\* an image of another host
CdnUrl == <<"https://", "cdn", "/", "1", ".jpg">>
\* an image of tori.fi with a query string
ToriUrl == <<"https://", "tori.fi", "/", "0", ".webp", "?", "w=640">>

\* re.findall returns "" for a group that took no part in the match
NoGroup == << >>

AcceptableAttrs == {"imageUrl", "image"}
OtherAttrs == {"mainImage", "data-src", "src", "image"}
OtherUrls(page) ==
    {LogoUrl, PhotoUrl, PageUrl, CdnUrl, ToriUrl}
        \cup (IF Len(page) > 0 THEN {page[1].url} ELSE {})

Insert(page, j, tag) ==
    SubSeq(page, 1, j) \o <<tag>> \o SubSeq(page, j + 1, Len(page))

\* pages of up to n tags with the URLs Url(1), Url(2), ... in this order
PlainPages(n) ==
    UNION {{[i \in 1..k |-> [attr |-> a[i], url |-> Url(i)]] :
                a \in [1..k -> AcceptableAttrs]} : k \in 0..n}

\* the same pages, and each with one more tag put in at any place: a URL
\* the extractor has a reason to refuse, one of another host, or a URL the
\* page holds already
PagesUpTo(n) ==
    PlainPages(n) \cup
    UNION {{Insert(page, j, [attr |-> a, url |-> u]) :
                j \in 0..Len(page), a \in OtherAttrs, u \in OtherUrls(page)} :
           page \in PlainPages(n)}

Exts == {".jpg", ".jpeg", ".png", ".webp"}

\* \.(?:jpg|jpeg|png|webp) at or after part i
ExtFrom(u, i) == \E j \in i..Len(u) : u[j] \in Exts

\* a pattern written for attr="..." matches inside data-attr="..." too
AttrMatches(pattern, attr) ==
    attr = pattern \/ (pattern = "src" /\ attr = "data-src")

\* the concatenation of f[1], ..., f[n], each a sequence
RECURSIVE Concat(_, _)
Concat(f, n) == IF n = 0 THEN << >> ELSE Concat(f, n - 1) \o f[n]

\* ---- toribot_base.py ----
image_patterns ==
    <<"mainImage", "imageUrl", "productImage", "data-src", "src", "image">>

ad_patterns ==
    {"banner", "advertisement", "promo", "logo", "icon",
     "avatar", "thumbnail", "watermark", "overlay"}

\* "key"\s*:\s*"(https://[^"]+\.(?:jpg|jpeg|png|webp)[^"]*)" and
\* attr="(https://[^"]*(?:images|img)[^"]*\.(?:jpg|jpeg|png|webp)[^"]*)"
PatternMatches(pattern, tag) ==
    /\ AttrMatches(pattern, tag.attr)
    /\ Len(tag.url) >= 1 /\ tag.url[1] = "https://"
    /\ IF pattern \in {"data-src", "src"}
       THEN \E i \in 2..Len(tag.url) :
                tag.url[i] \in {"images", "img"} /\ ExtFrom(tag.url, i + 1)
       ELSE ExtFrom(tag.url, 3)

\* re.findall(pattern, html, re.IGNORECASE): the URLs in page order
findall(pattern, page) ==
    LET hits == SelectSeq(page, LAMBDA tag : PatternMatches(pattern, tag))
    IN  [i \in 1..Len(hits) |-> hits[i].url]

\* the if of the scan: https, a trusted domain, no ad term, and
\* re.search(r'\.(jpg|jpeg|png|webp)(\?|$)', img_url)
ValidImageUrl(img_url) ==
    /\ img_url # NoGroup
    /\ img_url[1] = "https://"
    /\ \E i \in 1..Len(img_url) : img_url[i] \in {"tori.fi", "tor.se", "images"}
    /\ ~\E i \in 1..Len(img_url) : img_url[i] \in ad_patterns
    /\ \E i \in 1..Len(img_url) :
          img_url[i] \in Exts /\ (i = Len(img_url) \/ img_url[i + 1] = "?")

\* for pattern in image_patterns: for match in img_matches: images.append
ScanImages(page) ==
    Concat([p \in 1..Len(image_patterns) |->
                SelectSeq(findall(image_patterns[p], page), ValidImageUrl)],
           Len(image_patterns))

MaxImages == 5

\* "if img not in seen and len(unique_images) < 5" over images[from..]
RECURSIVE unique_images(_, _, _)
unique_images(imgs, from, unique) ==
    IF from > Len(imgs) THEN unique
    ELSE LET img == imgs[from]
             seen == {unique[i] : i \in 1..Len(unique)}
         IN  IF img \notin seen /\ Len(unique) < MaxImages
             THEN unique_images(imgs, from + 1, Append(unique, img))
             ELSE unique_images(imgs, from + 1, unique)

\* ---- toribot.py ----
app_image_patterns == <<"image", "imageUrl", "src">>

\* "image"\s*:\s*"(https://[^"]+)", "imageUrl"\s*:\s*"(https://[^"]+)" and
\* src="(https://[^"]*tori[^"]*\.(jpg|...)[^"]*)"|src="(https://[^"]*image[^"]*\.(jpg|...)[^"]*)"
HasBeforeExt(u, words) ==
    \E i \in 2..Len(u) : u[i] \in words /\ ExtFrom(u, i + 1)

AppPatternMatches(pattern, tag) ==
    /\ AttrMatches(pattern, tag.attr)
    /\ Len(tag.url) >= 1 /\ tag.url[1] = "https://"
    /\ IF pattern = "src"
       THEN \/ HasBeforeExt(tag.url, {"tori", "tori.fi"})
            \/ HasBeforeExt(tag.url, {"image", "images"})
       ELSE Len(tag.url) >= 2

\* match_groups[0]: the first group of the match, empty when the second
\* alternative of the src pattern matched
AppGroup0(pattern, tag) ==
    IF pattern = "src" /\ ~HasBeforeExt(tag.url, {"tori", "tori.fi"})
    THEN NoGroup
    ELSE tag.url

AppFindall(pattern, page) ==
    LET hits == SelectSeq(page, LAMBDA tag : AppPatternMatches(pattern, tag))
    IN  [i \in 1..Len(hits) |-> AppGroup0(pattern, hits[i])]

\* if img_url and img_url.startswith('https://')
AppKeeps(img_url) == img_url # NoGroup /\ img_url[1] = "https://"

AppScanImages(page) ==
    Concat([p \in 1..Len(app_image_patterns) |->
                SelectSeq(AppFindall(app_image_patterns[p], page), AppKeeps)],
           Len(app_image_patterns))

Min(a, b) == IF a < b THEN a ELSE b

\* list(set(images))[:5]: a set of str iterates in the order of the hashes,
\* which differ from process to process: any order of the set, cut after 5
ListOfSetCut(imgs) ==
    LET S == {imgs[i] : i \in 1..Len(imgs)}
        n == Cardinality(S)
    IN  {SubSeq(order, 1, Min(n, MaxImages)) :
            order \in {f \in [1..n -> S] : \A i, j \in 1..n : f[i] = f[j] => i = j}}

ImgQuiet ==
    /\ variant = "base"
    /\ detail_html = << >>
    /\ images = << >>
    /\ xpc = "idle"

\* toribot_base.py: images of extract_product_details(html, item_id)
ExtractImagesBase ==
    /\ xpc = "call"
    /\ variant = "base"
    /\ images' = unique_images(ScanImages(detail_html), 1, << >>)
    /\ xpc' = "return"
    /\ UNCHANGED <<variant, detail_html>>

\* toribot.py: images of extract_product_details(html, item_id)
ExtractImagesApp ==
    /\ xpc = "call"
    /\ variant = "app"
    /\ images' \in ListOfSetCut(AppScanImages(detail_html))
    /\ xpc' = "return"
    /\ UNCHANGED <<variant, detail_html>>

(***************************************************************************)
(* ProductExtractor.extract_product_details(html, item_id) of               *)
(* toribot_base.py, field after field inside its try.  A captured text is   *)
(* the sequence of its parts: words, blanks " ", tags "<b>" "</b>" and      *)
(* entities "&amp;".  The page is what re.search finds for each pattern of  *)
(* each field: no match, or a match with its captured text.                 *)
(***************************************************************************)
NoMatch == [hit |-> FALSE, text |-> << >>]
Hit(text) == [hit |-> TRUE, text |-> text]

\* None for a text field; _clean_text never returns the empty string
NoText == << >>

EmptyText == << >>
BlankText == <<" ">>
TagsText == <<"<b>", "</b>">>
PlainText == <<"Espoo">>
MessyText == <<" ", "<b>", "Iso", "</b>", " ", " ", "talo", " ", "&amp;", " ">>

\* re.sub(r'<[^>]+>', '', text)
StripTags(text) == SelectSeq(text, LAMBDA part : part \notin {"<b>", "</b>"})

\* html.unescape(text)
Unescape(text) == [i \in 1..Len(text) |-> IF text[i] = "&amp;" THEN "&" ELSE text[i]]

\* ' '.join(text.split()): the words, one blank between two of them
SplitJoin(text) == SelectSeq(text, LAMBDA part : part # " ")

\* if not text: return None; strip the tags, unescape, collapse the blanks;
\* return text.strip() or None
_clean_text(text) ==
    IF text = EmptyText THEN NoText ELSE SplitJoin(Unescape(StripTags(text)))

\* the number of patterns of each field
description_patterns == 2
location_patterns == 4
seller_patterns == 5

\* for pattern in patterns: match = re.search(...); if match:
\*     value = _clean_text(match.group(1)); break
RECURSIVE FirstMatch(_, _)
FirstMatch(matches, p) ==
    IF p > Len(matches) THEN NoText
    ELSE IF matches[p].hit THEN _clean_text(matches[p].text)
    ELSE FirstMatch(matches, p + 1)

\* f"https://www.tori.fi/recommerce/forsale/item/{item_id}"
RecordUrl(item_id) == <<"https://www.tori.fi/recommerce/forsale/item/", item_id>>

NoLocals ==
    [title |-> NoText, description |-> NoText, location |-> NoText,
     seller |-> NoText, images |-> << >>, errors |-> << >>]

NoDetails == [id |-> NoId]

\* the record of the return statement of the try; errors if errors else None
\* (an empty errors stands for None)
NormalRecord(item_id, locals) ==
    [id |-> item_id, url |-> RecordUrl(item_id), title |-> locals.title,
     description |-> locals.description, location |-> locals.location,
     seller |-> locals.seller, images |-> locals.images, image_files |-> << >>,
     errors |-> locals.errors, valuation |-> "None"]

\* a record of the except clause that keeps what the try had extracted
ExceptRecordPartial(item_id, locals) ==
    [NormalRecord(item_id, locals) EXCEPT
        !.errors = <<"Exception during extraction">>]

\* the record of the except clause
ExceptRecord(item_id, locals) ==
    [id |-> item_id, url |-> RecordUrl(item_id), title |-> NoText,
     description |-> NoText, location |-> NoText, seller |-> NoText,
     images |-> << >>, image_files |-> << >>,
     errors |-> <<"Exception during extraction">>, valuation |-> "None"]

DetQuiet ==
    /\ dhtml = [missing |-> TRUE]
    /\ did = NoId
    /\ dlocals = NoLocals
    /\ details = NoDetails
    /\ dpc = "idle"

\* title: re.search(r'<h1[^>]*>(.*?)</h1>', html, re.DOTALL); the note is
\* added only when there is no match
DetailsTitle ==
    /\ dpc = "title"
    /\ ~dhtml.missing
    /\ dlocals' = IF dhtml.title.hit
                  THEN [dlocals EXCEPT !.title = _clean_text(dhtml.title.text)]
                  ELSE [dlocals EXCEPT !.errors = Append(@, "Failed to extract title")]
    /\ dpc' = "description"
    /\ UNCHANGED <<dhtml, did, details, imgVars>>

DetailsDescription ==
    /\ dpc = "description"
    /\ LET description == FirstMatch(dhtml.description, 1)
       IN  dlocals' = [dlocals EXCEPT
               !.description = description,
               !.errors = IF description = NoText
                          THEN Append(@, "Failed to extract description") ELSE @]
    /\ dpc' = "location"
    /\ UNCHANGED <<dhtml, did, details, imgVars>>

DetailsLocation ==
    /\ dpc = "location"
    /\ LET location == FirstMatch(dhtml.location, 1)
       IN  dlocals' = [dlocals EXCEPT
               !.location = location,
               !.errors = IF location = NoText
                          THEN Append(@, "Failed to extract location") ELSE @]
    /\ dpc' = "seller"
    /\ UNCHANGED <<dhtml, did, details, imgVars>>

\* the note tells a logged-in page ("logged" or "profile" in html.lower())
\* from one that needs a login
DetailsSeller ==
    /\ dpc = "seller"
    /\ LET seller == FirstMatch(dhtml.seller, 1)
       IN  dlocals' = [dlocals EXCEPT
               !.seller = seller,
               !.errors = IF seller # NoText THEN @
                          ELSE IF dhtml.logged
                          THEN Append(@, "Seller info available but extraction failed (logged in user)")
                          ELSE Append(@, "Seller info not available (login required)")]
    /\ dpc' = "images"
    /\ UNCHANGED <<dhtml, did, details, imgVars>>

DetailsImages ==
    /\ dpc = "images"
    /\ LET unique == unique_images(ScanImages(detail_html), 1, << >>)
       IN  dlocals' = [dlocals EXCEPT
               !.images = unique,
               !.errors = IF unique = << >> THEN Append(@, "No images found") ELSE @]
    /\ dpc' = "build"
    /\ UNCHANGED <<dhtml, did, details, imgVars>>

\* return {...}
DetailsReturn ==
    /\ dpc = "build"
    /\ details' = NormalRecord(did, dlocals)
    /\ dpc' = "return"
    /\ UNCHANGED <<dhtml, did, dlocals, imgVars>>

\* a statement of the try raises: re.search on a page that is None raises
\* TypeError at the title; any later statement may raise an unexpected error
DetailsRaise ==
    /\ dpc \in {"title", "description", "location", "seller", "images", "build"}
    /\ dhtml.missing => dpc = "title"
    /\ dpc' = "except"
    /\ UNCHANGED <<dhtml, did, dlocals, details, imgVars>>

\* except Exception as e: logger.error(...); return {...}
DetailsExcept ==
    /\ dpc = "except"
    /\ details' = ExceptRecord(did, dlocals)
    /\ dpc' = "return"
    /\ UNCHANGED <<dhtml, did, dlocals, imgVars>>

(***************************************************************************)
(* ProductExtractor.extract_product_ids(html).  A page is the sequence of   *)
(* its links: the id of an item link, NoId for a link to something else.    *)
(***************************************************************************)
\* re.findall(PRODUCT_ID_PATTERN, html): the ids of the item links in page
\* order
IdMatches(links) == SelectSeq(links, LAMBDA link : link # NoId)

\* a list that keeps every match
list_of_matches(matches) == {matches}

\* list(set(matches)): the set in the order of its hashes, any order
list_of_set(matches) ==
    LET S == {matches[i] : i \in 1..Len(matches)}
        n == Cardinality(S)
    IN  {f \in [1..n -> S] : \A i, j \in 1..n : f[i] = f[j] => i = j}

IdsQuiet ==
    /\ link_html = [missing |-> TRUE, links |-> << >>]
    /\ product_ids = << >>
    /\ lpc = "idle"

\* if not html: return []; matches = re.findall(...); return list(set(matches))
ExtractProductIds ==
    /\ lpc = "call"
    /\ IF link_html.missing \/ link_html.links = << >>
       THEN product_ids' = << >>
       ELSE product_ids' \in list_of_set(IdMatches(link_html.links))
    /\ lpc' = "return"
    /\ UNCHANGED link_html

(***************************************************************************)
(* OpenAIValuator.valuate_item: the prices read from the answer.  The text  *)
(* is the sequence of its parts: a label ("HINTA_UUTENA", "ARVO_NYT",       *)
(* "ARVO") followed by a colon and by digits (num) or by something else     *)
(* (NoNum), or other text.                                                  *)
(***************************************************************************)
\* no digits after the label
NoNum == -1
\* None for a price
NoPrice == -1

\* re.search(r'<label>:\s*(\d+)', valuation_text, re.IGNORECASE): the first
\* place where the label is followed by digits; int(match.group(1))
SearchPrice(text, label) ==
    LET hits == {i \in 1..Len(text) : text[i].label = label /\ text[i].num # NoNum}
    IN  IF hits = {} THEN NoPrice
        ELSE text[CHOOSE i \in hits : \A j \in hits : i <= j].num

\* a fallback taken for every falsy price
NeedsFallbackFalsy(price_current) == price_current = NoPrice \/ price_current = 0

\* if price_current is None
NeedsFallback(price_current) == price_current = NoPrice

NoValuation == [status |-> "none"]

\* the dict of the return statement of the try
ParsedValuation(text) ==
    LET price_new == SearchPrice(text, "HINTA_UUTENA")
        price_nyt == SearchPrice(text, "ARVO_NYT")
        price_current == IF NeedsFallback(price_nyt)
                         THEN SearchPrice(text, "ARVO")
                         ELSE price_nyt
    IN  [status |-> "completed", text |-> text, price_new |-> price_new,
         price_current |-> price_current, price_estimate |-> price_current]

ParseQuiet ==
    /\ valuation_text = << >>
    /\ parsed = NoValuation
    /\ tpc = "idle"

\* valuation_text = response.choices[0].message.content.strip(); ...; return
ParseValuation ==
    /\ tpc = "call"
    /\ parsed' = ParsedValuation(valuation_text)
    /\ tpc' = "return"
    /\ UNCHANGED valuation_text

(***************************************************************************)
(* ToribotController of toribot_controller.py: one thread that serves the   *)
(* menu, and the bot processes it launches, which may exit on their own.    *)
(***************************************************************************)
NoProc == 0
Bots == {"Toribot", "Ostobotti"}

\* a start_bot that never refuses
StartBotGuardNever == FALSE

\* if self.running_process: (refuse)
StartBotGuard == running_process # NoProc

CtrlQuiet ==
    /\ running_process = NoProc
    /\ running_bot = "None"
    /\ alive = {}
    /\ launched = 0
    /\ kpc = "menu"
    /\ kret = "none"
    /\ idled_by = "init"

\* start_bot(bot_name) up to time.sleep(2): refused while a process is
\* recorded; False when the bot file is not found; subprocess.Popen starts
\* the process or raises, and the except clause clears the two fields
StartBot(bot_name) ==
    /\ kpc = "menu"
    /\ IF StartBotGuard
       THEN /\ kret' = "refused"
            /\ UNCHANGED <<running_process, running_bot, alive, launched, kpc, idled_by>>
       ELSE \/ /\ kret' = "not_found"
               /\ UNCHANGED <<running_process, running_bot, alive, launched, kpc, idled_by>>
            \/ /\ launched < MaxLaunch
               /\ launched' = launched + 1
               /\ running_process' = launched + 1
               /\ running_bot' = bot_name
               /\ alive' = alive \cup {launched + 1}
               /\ kpc' = "started"
               /\ kret' = "none"
               /\ UNCHANGED idled_by
            \/ /\ running_process' = NoProc
               /\ running_bot' = "None"
               /\ kret' = "error"
               /\ idled_by' = "start_bot"
               /\ UNCHANGED <<alive, launched, kpc>>

\* start_bot after the sleep: if self.running_process.poll() is None:
\* return True; else clear the two fields and return False
StartBotCheck ==
    /\ kpc = "started"
    /\ IF running_process \in alive
       THEN /\ kret' = "started"
            /\ UNCHANGED <<running_process, running_bot, idled_by>>
       ELSE /\ kret' = "failed"
            /\ running_process' = NoProc
            /\ running_bot' = "None"
            /\ idled_by' = "start_bot"
    /\ kpc' = "menu"
    /\ UNCHANGED <<alive, launched>>

\* stop_bot up to the wait: False when nothing is recorded; send_signal
\* (SIGINT) is sent, or raises and the except clause returns False
StopBot ==
    /\ kpc = "menu"
    /\ IF running_process = NoProc
       THEN /\ kret' = "not_running"
            /\ UNCHANGED kpc
       ELSE \/ /\ kpc' = "stopping"
               /\ kret' = "none"
            \/ /\ kret' = "stop_error"
               /\ UNCHANGED kpc
    /\ UNCHANGED <<running_process, running_bot, alive, launched, idled_by>>

\* stop_bot: wait(timeout=10) returns, or kill() and wait(); the process is
\* gone, the two fields are cleared, return True
StopBotWait ==
    /\ kpc = "stopping"
    /\ alive' = alive \ {running_process}
    /\ running_process' = NoProc
    /\ running_bot' = "None"
    /\ kret' \in {"stopped", "force_stopped"}
    /\ idled_by' = "stop_bot"
    /\ kpc' = "menu"
    /\ UNCHANGED launched

\* view_status: a recorded process that has terminated is forgotten
ViewStatus ==
    /\ kpc = "menu"
    /\ running_bot # "None"
    /\ IF running_process \in alive
       THEN UNCHANGED <<running_process, running_bot, idled_by>>
       ELSE /\ running_process' = NoProc
            /\ running_bot' = "None"
            /\ idled_by' = "view_status"
    /\ UNCHANGED <<alive, launched, kpc, kret>>

\* a bot process exits on its own
ProcessExits ==
    /\ \E proc \in alive : alive' = alive \ {proc}
    /\ UNCHANGED <<running_process, running_bot, launched, kpc, kret, idled_by>>

(***************************************************************************)
(* History of consecutive poll passes: which detail pages each pass        *)
(* requested and which of those requests failed.                           *)
(***************************************************************************)
RetryQuiet ==
    /\ store_before = <<>>
    /\ listed = "none"
    /\ fetched_cur = {}
    /\ failed_cur = {}
    /\ failed_prev = {}

(***************************************************************************)
(* ToriBot._poll_once from "settings = self.settings_manager.get_settings()"*)
(* to add_item, with ToriBot._download_item_images and                     *)
(* ToriFetcher.download_image. A URL is [n, ext]: its name and the text    *)
(* after its last dot. max_images_per_item is whatever JSON value the      *)
(* settings hold: an integer [kind |-> "int", n |-> k], null, or a string. *)
(***************************************************************************)
IntCap(k) == [kind |-> "int", n |-> k]
NoneCap == [kind |-> "none", n |-> 0]
StrCap == [kind |-> "str", n |-> 0]

\* images[:max_images]: a negative bound counts from the end of the list,
\* None is no bound
Slice(seq, cap) ==
    IF cap.kind = "none" THEN seq
    ELSE IF cap.n >= 0 THEN SubSeq(seq, 1, Min(cap.n, Len(seq)))
    ELSE SubSeq(seq, 1, Len(seq) + cap.n)

\* ext = img_url.split('.')[-1].split('?')[0].lower(); "if ext not in
\* ['jpg', 'jpeg', 'png', 'gif', 'webp']: ext = 'jpg'"
FileExt(img_url) ==
    IF img_url.ext \in {"jpg", "JPG"} THEN "jpg"
    ELSE IF img_url.ext \in {"png", "PNG"} THEN "png"
    ELSE "jpg"

\* filename = f"{item_id}_{idx}.{ext}"
Filename(item_id, i, img_url) == [id |-> item_id, idx |-> i, ext |-> FileExt(img_url)]

\* ToriFetcher.download_image: _fetch_with_retries gave nothing
\* ("fetch_failed"), Image.open raised ("not_image"), img.save raised
\* ("save_failed"), or the file was written ("saved")
DownloadOutcomes == {"fetch_failed", "not_image", "save_failed", "saved"}

\* a download_image that reports a fetched, decoded image whether or not
\* it could be saved
download_image_decoded(outcome) == outcome \in {"save_failed", "saved"}

\* what download_image returns
download_image(outcome) == outcome = "saved"

NotUpserted == [images |-> <<>>, image_files |-> <<>>, stored |-> FALSE]

DlItemId == 1

DlQuiet ==
    /\ download_enabled = TRUE
    /\ max_images = IntCap(MaxImages)
    /\ item_images = <<>>
    /\ idx = 0
    /\ downloaded = <<>>
    /\ outcomes = <<>>
    /\ image_files = <<>>
    /\ upserted = NotUpserted
    /\ ipc = "idle"

\* item_data = ProductExtractor.extract_product_details(...): image_files []
PollExtracted ==
    /\ ipc = "idle"
    /\ ipc' = "settings"
    /\ image_files' = <<>>
    /\ UNCHANGED <<download_enabled, max_images, item_images, idx, downloaded,
                   outcomes, upserted>>

\* a pass that goes to add_item without calling _download_item_images
AfterSettingsAdd(enabled) == "add"

\* 'if settings.get("images", {}).get("download_enabled", True):
\* self._download_item_images(item_data)', and then add_item
AfterSettings(enabled) == IF enabled THEN "slice" ELSE "add"

\* 'if settings.get("images", {}).get("download_enabled", True):'
PollDownloadEnabled ==
    /\ ipc = "settings"
    /\ ipc' = AfterSettings(download_enabled)
    /\ UNCHANGED <<download_enabled, max_images, item_images, idx, downloaded,
                   outcomes, image_files, upserted>>

\* 'images = item_data.get("images", [])[:max_images]; downloaded = []': a
\* bound that is not an integer or None raises TypeError, outside any try
DownloadSlice ==
    /\ ipc = "slice"
    /\ ipc' = IF max_images.kind = "str" THEN "raised" ELSE "loop"
    /\ idx' = 0
    /\ downloaded' = <<>>
    /\ UNCHANGED <<download_enabled, max_images, item_images, outcomes,
                   image_files, upserted>>

\* one iteration of "for idx, img_url in enumerate(images)"
DownloadOne ==
    /\ ipc = "loop"
    /\ idx < Len(Slice(item_images, max_images))
    /\ \E outcome \in DownloadOutcomes :
         /\ outcomes' = Append(outcomes, outcome)
         /\ downloaded' =
              IF download_image(outcome)
              THEN Append(downloaded,
                          Filename(DlItemId, idx, Slice(item_images, max_images)[idx + 1]))
              ELSE downloaded
    /\ idx' = idx + 1
    /\ UNCHANGED <<download_enabled, max_images, item_images, image_files,
                   upserted, ipc>>

\* item_data["image_files"] = downloaded
DownloadReturn ==
    /\ ipc = "loop"
    /\ idx = Len(Slice(item_images, max_images))
    /\ image_files' = downloaded
    /\ ipc' = "add"
    /\ UNCHANGED <<download_enabled, max_images, item_images, idx, downloaded,
                   outcomes, upserted>>

\* self.database.add_item(product_id, item_data)
PollAddItem ==
    /\ ipc = "add"
    /\ upserted' = [images |-> item_images, image_files |-> image_files, stored |-> TRUE]
    /\ ipc' = "done"
    /\ UNCHANGED <<download_enabled, max_images, item_images, idx, downloaded,
                   outcomes, image_files>>

(***************************************************************************)
(* The locks. Every operation of ProductDatabase and SettingsManager is    *)
(* one "with self.lock:" block: the thread acquires the lock, runs the     *)
(* body, and the with statement releases the lock when the body returns or *)
(* raises. A function is the sequence of its locked operations and network *)
(* calls, in program order; a thread runs one function at a time.          *)
(***************************************************************************)
Workers == 1..MaxWorkers
LockNames == {"store", "settings"}

StoreOps == {"item_exists", "add_item", "get_item", "get_all_items",
             "get_items_needing_valuation"}
SettingsOps == {"get_settings", "update_settings"}

\* the lock an operation takes
LockOf(op) == IF op \in StoreOps THEN "store" ELSE "settings"

\* with self.lock: <body>
Locked(op) ==
    <<[k |-> "acquire", what |-> op], [k |-> "body", what |-> op],
      [k |-> "release", what |-> op]>>

\* a request sent to the site or to the API, and its answer
NetworkCall(what) == <<[k |-> "send", what |-> what], [k |-> "recv", what |-> what]>>

\* ToriFetcher._fetch_with_retries: get_settings, then session.get
fetch_with_retries(what) == Locked("get_settings") \o NetworkCall(what)

\* fetch_listing_page, fetch_item_page, download_image: get_settings, then
\* _fetch_with_retries
fetch_listing_page_steps == Locked("get_settings") \o fetch_with_retries("listing")
fetch_item_page_steps == Locked("get_settings") \o fetch_with_retries("detail")
download_image_steps == Locked("get_settings") \o fetch_with_retries("image")

\* OpenAIValuator.valuate_item: is_enabled (get_settings), get_settings,
\* client.chat.completions.create
valuate_item_steps ==
    Locked("get_settings") \o Locked("get_settings") \o NetworkCall("valuation")

\* _poll_once with one new id that has one image
poll_once_steps ==
    fetch_listing_page_steps \o Locked("item_exists") \o fetch_item_page_steps
    \o Locked("get_settings") \o Locked("get_settings") \o download_image_steps
    \o Locked("add_item")

\* _run_valuations with one item to valuate
run_valuations_steps ==
    Locked("get_items_needing_valuation") \o valuate_item_steps \o Locked("add_item")

\* the functions a thread runs: the two passes, and the operations the
\* routes call directly
Functions == {"_poll_once", "_run_valuations", "get_item", "get_all_items",
              "update_settings"}

StepsOf(f) ==
    IF f = "_poll_once" THEN poll_once_steps
    ELSE IF f = "_run_valuations" THEN run_valuations_steps
    ELSE Locked(f)

\* a lock whose holder keeps it when the body raises (acquire() and
\* release() without try/finally)
HolderAfterRaiseKept(w) == w

\* the with statement releases the lock when its body raises
HolderAfterRaise(w) == NoHolder

LocksQuiet ==
    /\ lock_holder = [l \in LockNames |-> NoHolder]
    /\ wtodo = [w \in Workers |-> <<>>]
    /\ winside = [w \in Workers |-> "none"]
    /\ wnet = [w \in Workers |-> "none"]

\* a thread begins a function
WorkerCall(w) ==
    /\ wtodo[w] = <<>>
    /\ \E f \in Functions : wtodo' = [wtodo EXCEPT ![w] = StepsOf(f)]
    /\ UNCHANGED <<lock_holder, winside, wnet>>

\* "with self.lock:" blocks until the lock is free, then takes it
WorkerAcquire(w) ==
    /\ wtodo[w] # <<>>
    /\ Head(wtodo[w]).k = "acquire"
    /\ LET op == Head(wtodo[w]).what IN
       /\ lock_holder[LockOf(op)] = NoHolder
       /\ lock_holder' = [lock_holder EXCEPT ![LockOf(op)] = w]
       /\ winside' = [winside EXCEPT ![w] = op]
    /\ wtodo' = [wtodo EXCEPT ![w] = Tail(@)]
    /\ UNCHANGED wnet

\* the body of the block runs to its end
WorkerBody(w) ==
    /\ wtodo[w] # <<>>
    /\ Head(wtodo[w]).k = "body"
    /\ wtodo' = [wtodo EXCEPT ![w] = Tail(@)]
    /\ UNCHANGED <<lock_holder, winside, wnet>>

\* the body of the block raises (ValueError of update_settings, an
\* AttributeError on a malformed record, ...): the exception leaves the
\* block and the function
WorkerRaise(w) ==
    /\ wtodo[w] # <<>>
    /\ Head(wtodo[w]).k = "body"
    /\ lock_holder' = [lock_holder EXCEPT ![LockOf(Head(wtodo[w]).what)] = HolderAfterRaise(w)]
    /\ winside' = [winside EXCEPT ![w] = "none"]
    /\ wtodo' = [wtodo EXCEPT ![w] = <<>>]
    /\ UNCHANGED wnet

\* the end of the with block
WorkerRelease(w) ==
    /\ wtodo[w] # <<>>
    /\ Head(wtodo[w]).k = "release"
    /\ lock_holder' = [lock_holder EXCEPT ![LockOf(Head(wtodo[w]).what)] = NoHolder]
    /\ winside' = [winside EXCEPT ![w] = "none"]
    /\ wtodo' = [wtodo EXCEPT ![w] = Tail(@)]
    /\ UNCHANGED wnet

\* session.get(...) or client.chat.completions.create(...) is called
WorkerSend(w) ==
    /\ wtodo[w] # <<>>
    /\ Head(wtodo[w]).k = "send"
    /\ wnet' = [wnet EXCEPT ![w] = Head(wtodo[w]).what]
    /\ wtodo' = [wtodo EXCEPT ![w] = Tail(@)]
    /\ UNCHANGED <<lock_holder, winside>>

\* the call returns: with an answer, or with a failure that ends the
\* function ("if not html: return")
WorkerRecv(w) ==
    /\ wtodo[w] # <<>>
    /\ Head(wtodo[w]).k = "recv"
    /\ wnet' = [wnet EXCEPT ![w] = "none"]
    /\ \E ok \in BOOLEAN :
         wtodo' = [wtodo EXCEPT ![w] = IF ok THEN Tail(@) ELSE <<>>]
    /\ UNCHANGED <<lock_holder, winside>>

(***************************************************************************)
(* ToriBot._run_valuations over record objects. The store maps an id to a  *)
(* dict object; get_items_needing_valuation returns the objects            *)
(* themselves, not copies; dict(item) makes a new object with the same     *)
(* fields; add_item stores the object it is given.                         *)
(***************************************************************************)
NoRef == 0

\* a record as extract_product_details builds it
HeapRec(item_id, title, at, valuation) ==
    [id |-> item_id, title |-> title, discovered_at |-> at, updated_at |-> at,
     valuation |-> valuation]

\* an update that writes into the object the store holds (updated_item = item)
dict_alias(item) == item

\* updated_item = dict(item): the new object
dict_copy(item) == Len(heap) + 1

\* the keys of the store in insertion order (the ids, ascending)
RECURSIVE NeedingFrom(_)
NeedingFrom(i) ==
    IF i > MaxIds THEN <<>>
    ELSE (IF NeedsValuation(heap[store_refs[i]])
          THEN <<[k |-> i, ref |-> store_refs[i]]>> ELSE <<>>) \o NeedingFrom(i + 1)

HeapQuiet ==
    /\ heap = <<>>
    /\ store_refs = <<>>
    /\ hlist = <<>>
    /\ hsnap = <<>>
    /\ hcopy = NoRef
    /\ hval = "None"
    /\ hnow = 1
    /\ hpc = "idle"

\* items_to_valuate = self.database.get_items_needing_valuation()
HeapSnapshot ==
    /\ hpc = "idle"
    /\ hlist' = NeedingFrom(1)
    /\ hsnap' = [i \in Ids |-> heap[store_refs[i]]]
    /\ hpc' = "foreach"
    /\ UNCHANGED <<heap, store_refs, hcopy, hval, hnow>>

\* for item_id, item in items_to_valuate
HeapForEach ==
    /\ hpc = "foreach"
    /\ hpc' = IF hlist = <<>> THEN "idle" ELSE "call"
    /\ UNCHANGED <<heap, store_refs, hlist, hsnap, hcopy, hval, hnow>>

\* valuation = self.valuator.valuate_item(item): a valuation dict, or None
\* (or an exception, logged): "if valuation:" is false and the item is left
HeapValuate ==
    /\ hpc = "call"
    /\ \E valuation \in {"completed", "error", "None"} :
         /\ hval' = valuation
         /\ IF valuation = "None"
            THEN hlist' = Tail(hlist) /\ hpc' = "foreach"
            ELSE hlist' = hlist /\ hpc' = "copy"
    /\ UNCHANGED <<heap, store_refs, hsnap, hcopy, hnow>>

\* updated_item = dict(item)
HeapCopy ==
    /\ hpc = "copy"
    /\ Len(heap) < MaxRefs
    /\ LET item == Head(hlist).ref IN
       /\ hcopy' = dict_copy(item)
       /\ heap' = IF dict_copy(item) > Len(heap) THEN Append(heap, heap[item]) ELSE heap
    /\ hpc' = "set"
    /\ UNCHANGED <<store_refs, hlist, hsnap, hval, hnow>>

\* updated_item["valuation"] = valuation;
\* updated_item["updated_at"] = datetime.now().isoformat()
HeapSet ==
    /\ hpc = "set"
    /\ heap' = [heap EXCEPT ![hcopy] = [@ EXCEPT !.valuation = hval, !.updated_at = hnow]]
    /\ hnow' = hnow + 1
    /\ hpc' = "add"
    /\ UNCHANGED <<store_refs, hlist, hsnap, hcopy, hval>>

\* self.database.add_item(item_id, updated_item)
HeapAddItem ==
    /\ hpc = "add"
    /\ store_refs' = [store_refs EXCEPT ![Head(hlist).k] = hcopy]
    /\ hlist' = Tail(hlist)
    /\ hcopy' = NoRef
    /\ hpc' = "foreach"
    /\ UNCHANGED <<heap, hsnap, hval, hnow>>

\* another thread (a poll pass, refresh-all) upserts a record it has just
\* extracted: add_item(product_id, item_data) with a new object
HeapOtherAdd ==
    /\ Len(heap) < MaxRefs
    /\ \E i \in Ids :
         /\ heap' = Append(heap, HeapRec(i, "new", hnow, "None"))
         /\ store_refs' = [store_refs EXCEPT ![i] = Len(heap) + 1]
    /\ hnow' = hnow + 1
    /\ UNCHANGED <<hlist, hsnap, hcopy, hval, hpc>>

(***************************************************************************)
(* ToriBot.fetch_multiple_pages(num_products): the page count, the loop    *)
(* over the pages, the return value. _poll_once(page) is one call that     *)
(* ends normally with new items ("ok"), normally after a failed listing    *)
(* fetch ("failed"), or with an exception ("raised").                      *)
(***************************************************************************)
NoResult == [success |-> FALSE, pages_fetched |-> 0]

PassOutcomes == {"ok", "failed", "raised"}

\* "except Exception as e: logger.error(...)": the loop goes on with the
\* page after the one that raised
AfterPageRaised(count, page) == page

PagesQuiet ==
    /\ m_products = 0
    /\ m_per_page = DefaultProductsPerPage
    /\ m_num_pages = 0
    /\ m_page = 0
    /\ m_runs = <<>>
    /\ m_result = NoResult
    /\ mpc = "idle"

\* settings = get_settings(); products_per_page = ...; num_pages = ...
MultiCall ==
    /\ mpc = "idle"
    /\ m_num_pages' = NumPages(m_products, m_per_page)
    /\ m_page' = 0
    /\ mpc' = "loop"
    /\ UNCHANGED <<m_products, m_per_page, m_runs, m_result>>

\* "for page_num in range(1, num_pages + 1): try: self._poll_once(page=page_num)"
MultiPollOnce ==
    /\ mpc = "loop"
    /\ m_page < m_num_pages
    /\ m_page' = m_page + 1
    /\ mpc' = "polling"
    /\ UNCHANGED <<m_products, m_per_page, m_num_pages, m_runs, m_result>>

\* _poll_once returns or raises; the except clause logs
MultiPollOnceEnds ==
    /\ mpc = "polling"
    /\ \E outcome \in PassOutcomes :
         /\ m_runs' = Append(m_runs, [page |-> m_page, outcome |-> outcome])
         /\ m_page' = IF outcome = "raised"
                      THEN AfterPageRaised(m_num_pages, m_page) ELSE m_page
    /\ mpc' = "loop"
    /\ UNCHANGED <<m_products, m_per_page, m_num_pages, m_result>>

\* return {"success": True, "pages_fetched": num_pages}
MultiReturn ==
    /\ mpc = "loop"
    /\ m_page >= m_num_pages
    /\ m_result' = [success |-> TRUE, pages_fetched |-> m_num_pages]
    /\ mpc' = "returned"
    /\ UNCHANGED <<m_products, m_per_page, m_num_pages, m_page, m_runs>>

ExtraQuiet ==
    /\ DetQuiet
    /\ IdsQuiet
    /\ ParseQuiet
    /\ CtrlQuiet
    /\ RetryQuiet
    /\ DlQuiet
    /\ LocksQuiet
    /\ HeapQuiet
    /\ PagesQuiet

RestOfDetQuiet ==
    /\ IdsQuiet
    /\ ParseQuiet
    /\ CtrlQuiet
    /\ RetryQuiet
    /\ DlQuiet
    /\ LocksQuiet
    /\ HeapQuiet
    /\ PagesQuiet

RestOfIdsQuiet ==
    /\ DetQuiet
    /\ ParseQuiet
    /\ CtrlQuiet
    /\ RetryQuiet
    /\ DlQuiet
    /\ LocksQuiet
    /\ HeapQuiet
    /\ PagesQuiet

RestOfParseQuiet ==
    /\ DetQuiet
    /\ IdsQuiet
    /\ CtrlQuiet
    /\ RetryQuiet
    /\ DlQuiet
    /\ LocksQuiet
    /\ HeapQuiet
    /\ PagesQuiet

RestOfCtrlQuiet ==
    /\ DetQuiet
    /\ IdsQuiet
    /\ ParseQuiet
    /\ RetryQuiet
    /\ DlQuiet
    /\ LocksQuiet
    /\ HeapQuiet
    /\ PagesQuiet

RestOfRetryQuiet ==
    /\ DetQuiet
    /\ IdsQuiet
    /\ ParseQuiet
    /\ CtrlQuiet
    /\ DlQuiet
    /\ LocksQuiet
    /\ HeapQuiet
    /\ PagesQuiet

RestOfDlQuiet ==
    /\ DetQuiet
    /\ IdsQuiet
    /\ ParseQuiet
    /\ CtrlQuiet
    /\ RetryQuiet
    /\ LocksQuiet
    /\ HeapQuiet
    /\ PagesQuiet

RestOfLocksQuiet ==
    /\ DetQuiet
    /\ IdsQuiet
    /\ ParseQuiet
    /\ CtrlQuiet
    /\ RetryQuiet
    /\ DlQuiet
    /\ HeapQuiet
    /\ PagesQuiet

RestOfHeapQuiet ==
    /\ DetQuiet
    /\ IdsQuiet
    /\ ParseQuiet
    /\ CtrlQuiet
    /\ RetryQuiet
    /\ DlQuiet
    /\ LocksQuiet
    /\ PagesQuiet

RestOfPagesQuiet ==
    /\ DetQuiet
    /\ IdsQuiet
    /\ ParseQuiet
    /\ CtrlQuiet
    /\ RetryQuiet
    /\ DlQuiet
    /\ LocksQuiet
    /\ HeapQuiet

UnitInit ==
    /\ max_retries = DefaultMaxRetries
    /\ FetchQuiet
    /\ SetQuiet
    /\ StoreQuiet
    /\ ImgQuiet
    /\ ExtraQuiet

(***************************************************************************)
(* SpecFetch: calls of fetch_listing_page and fetch_item_page, one after    *)
(* the other, under a max_retries setting of 0 or more.                     *)
(***************************************************************************)
FetchInit ==
    /\ CoordInit /\ SeqInit
    /\ openai = OpenAIOff
    /\ listing = ListingPage(MaxIds)
    /\ items = <<>>
    /\ max_retries \in 0..MaxRetries
    /\ FetchQuiet
    /\ SetQuiet
    /\ StoreQuiet
    /\ ImgQuiet
    /\ ExtraQuiet

FetchNext ==
    /\ \/ FetchListingPageCall
       \/ FetchItemPageCall
       \/ AddJitter
       \/ FetchLoop
       \/ FetchGet
       \/ FetchSleep
       \/ FetchReturn
    /\ UNCHANGED <<coordVars, seqVars, setVars, storeVars, imgVars, extraVars>>

SpecFetch == FetchInit /\ [][FetchNext]_vars

(***************************************************************************)
(* SpecImages: extract_product_details of toribot_base.py and of toribot.py *)
(* called on a detail page.                                                 *)
(***************************************************************************)
ImagesInit ==
    /\ CoordInit /\ SeqInit
    /\ openai = OpenAIOff
    /\ listing = ListingPage(MaxIds)
    /\ items = <<>>
    /\ max_retries = DefaultMaxRetries
    /\ FetchQuiet
    /\ SetQuiet
    /\ StoreQuiet
    /\ ExtraQuiet
    /\ \/ variant = "base" /\ detail_html \in PagesUpTo(MaxUrls)
       \/ variant = "app" /\ detail_html \in PagesUpTo(MaxAppUrls)
    /\ images = << >>
    /\ xpc = "call"

ImagesNext ==
    /\ \/ ExtractImagesBase
       \/ ExtractImagesApp
    /\ UNCHANGED <<coordVars, seqVars, fetchVars, setVars, storeVars, extraVars>>

SpecImages == ImagesInit /\ [][ImagesNext]_vars

(***************************************************************************)
(* SpecDetails: extract_product_details of toribot_base.py called on a      *)
(* detail page, or on no page at all; any statement of its try may raise.   *)
(***************************************************************************)
\* the captures a pattern that allows an empty capture can make
AnyMatches ==
    {NoMatch, Hit(EmptyText), Hit(BlankText), Hit(TagsText), Hit(PlainText), Hit(MessyText)}

\* the captures of the patterns of location and seller
SomeMatches == {NoMatch, Hit(BlankText), Hit(PlainText)}

PlainPage ==
    [missing |-> FALSE, title |-> Hit(PlainText),
     description |-> <<Hit(PlainText), NoMatch>>,
     location |-> <<Hit(PlainText), NoMatch, NoMatch, NoMatch>>,
     seller |-> <<Hit(PlainText), NoMatch, NoMatch, NoMatch, NoMatch>>,
     logged |-> FALSE]

\* the plain page with one field replaced by each thing its patterns can find
TextPages ==
    {[PlainPage EXCEPT !.title = m] : m \in AnyMatches}
    \cup {[PlainPage EXCEPT !.description = m] :
              m \in [1..description_patterns -> AnyMatches]}
    \cup {[PlainPage EXCEPT !.location = m] :
              m \in [1..location_patterns -> SomeMatches]}
    \cup {[PlainPage EXCEPT !.seller = m, !.logged = l] :
              m \in [1..seller_patterns -> SomeMatches], l \in BOOLEAN}

\* the image tags of the page: none, one that is kept, one that is refused
ImagePages ==
    {<< >>, <<[attr |-> "imageUrl", url |-> Url(1)]>>,
     <<[attr |-> "image", url |-> LogoUrl]>>}

DetailsInit ==
    /\ CoordInit /\ SeqInit
    /\ openai = OpenAIOff
    /\ listing = ListingPage(MaxIds)
    /\ items = <<>>
    /\ max_retries = DefaultMaxRetries
    /\ FetchQuiet
    /\ SetQuiet
    /\ StoreQuiet
    /\ RestOfDetQuiet
    /\ variant = "base"
    /\ detail_html \in ImagePages
    /\ images = << >>
    /\ xpc = "idle"
    /\ \/ dhtml \in TextPages
       \/ dhtml = [missing |-> TRUE]
    /\ did \in Ids
    /\ dlocals = NoLocals
    /\ details = NoDetails
    /\ dpc = "title"

DetailsNext ==
    /\ \/ DetailsTitle
       \/ DetailsDescription
       \/ DetailsLocation
       \/ DetailsSeller
       \/ DetailsImages
       \/ DetailsReturn
       \/ DetailsRaise
       \/ DetailsExcept
    /\ UNCHANGED <<coordVars, seqVars, fetchVars, setVars, storeVars, restOfDet>>

SpecDetails == DetailsInit /\ [][DetailsNext]_vars

(***************************************************************************)
(* SpecIds: extract_product_ids called on a listing page of up to MaxLinks  *)
(* links, or on no page.                                                    *)
(***************************************************************************)
LinkPages ==
    UNION {[1..n -> Ids \cup {NoId}] : n \in 0..MaxLinks}

IdsInit ==
    /\ CoordInit /\ SeqInit
    /\ openai = OpenAIOff
    /\ listing = ListingPage(MaxIds)
    /\ items = <<>>
    /\ max_retries = DefaultMaxRetries
    /\ FetchQuiet
    /\ SetQuiet
    /\ StoreQuiet
    /\ ImgQuiet
    /\ RestOfIdsQuiet
    /\ \/ link_html \in [missing : {FALSE}, links : LinkPages]
       \/ link_html = [missing |-> TRUE, links |-> << >>]
    /\ product_ids = << >>
    /\ lpc = "call"

IdsNext ==
    /\ ExtractProductIds
    /\ UNCHANGED <<coordVars, seqVars, fetchVars, setVars, storeVars, imgVars, restOfIds>>

SpecIds == IdsInit /\ [][IdsNext]_vars

(***************************************************************************)
(* SpecParse: the prices parsed from an answer of up to MaxParts parts.     *)
(***************************************************************************)
TextParts ==
    [label : {"HINTA_UUTENA", "ARVO_NYT", "ARVO"}, num : {NoNum} \cup (0..MaxPrice)]
        \cup {[label |-> "text", num |-> NoNum]}

ParseInit ==
    /\ CoordInit /\ SeqInit
    /\ openai = OpenAIOff
    /\ listing = ListingPage(MaxIds)
    /\ items = <<>>
    /\ max_retries = DefaultMaxRetries
    /\ FetchQuiet
    /\ SetQuiet
    /\ StoreQuiet
    /\ ImgQuiet
    /\ RestOfParseQuiet
    /\ valuation_text \in UNION {[1..n -> TextParts] : n \in 0..MaxParts}
    /\ parsed = NoValuation
    /\ tpc = "call"

ParseNext ==
    /\ ParseValuation
    /\ UNCHANGED <<coordVars, seqVars, fetchVars, setVars, storeVars, imgVars, restOfParse>>

SpecParse == ParseInit /\ [][ParseNext]_vars

(***************************************************************************)
(* SpecCtrl: the terminal controller serving start, stop and status         *)
(* requests while the bot processes may exit on their own.                  *)
(***************************************************************************)
CtrlInit ==
    /\ CoordInit /\ SeqInit
    /\ openai = OpenAIOff
    /\ listing = ListingPage(MaxIds)
    /\ items = <<>>
    /\ max_retries = DefaultMaxRetries
    /\ FetchQuiet
    /\ SetQuiet
    /\ StoreQuiet
    /\ ImgQuiet
    /\ RestOfCtrlQuiet
    /\ CtrlQuiet

CtrlNext ==
    /\ \/ \E bot_name \in Bots : StartBot(bot_name)
       \/ StartBotCheck
       \/ StopBot
       \/ StopBotWait
       \/ ViewStatus
       \/ ProcessExits
    /\ UNCHANGED <<coordVars, seqVars, fetchVars, setVars, storeVars, imgVars, restOfCtrl>>

SpecCtrl == CtrlInit /\ [][CtrlNext]_vars

(***************************************************************************)
(* SpecDownload: one new item of a poll pass from its extracted record to  *)
(* its upsert, for every images list of up to MaxDl URLs, every value of   *)
(* the two image settings and every outcome of every download.             *)
(***************************************************************************)
RECURSIVE UrlLists(_)
UrlLists(n) ==
    IF n = 0 THEN {<<>>}
    ELSE UrlLists(n - 1) \cup
         {Append(l, [n |-> Len(l) + 1, ext |-> e]) :
            l \in {x \in UrlLists(n - 1) : Len(x) = n - 1}, e \in {"jpg", "PNG", "php"}}

Caps == {IntCap(k) : k \in -1..2} \cup {IntCap(MaxImages), NoneCap, StrCap}

DownloadInit ==
    /\ CoordInit /\ SeqInit
    /\ openai = OpenAIOff
    /\ listing = ListingPage(MaxIds)
    /\ items = <<>>
    /\ max_retries = DefaultMaxRetries
    /\ FetchQuiet
    /\ SetQuiet
    /\ StoreQuiet
    /\ ImgQuiet
    /\ RestOfDlQuiet
    /\ download_enabled \in BOOLEAN
    /\ max_images \in Caps
    /\ item_images \in UrlLists(MaxDl)
    /\ idx = 0
    /\ downloaded = <<>>
    /\ outcomes = <<>>
    /\ image_files = <<>>
    /\ upserted = NotUpserted
    /\ ipc = "idle"

DownloadNext ==
    /\ \/ PollExtracted \/ PollDownloadEnabled \/ DownloadSlice
       \/ DownloadOne \/ DownloadReturn \/ PollAddItem
    /\ UNCHANGED <<coordVars, seqVars, fetchVars, setVars, storeVars, imgVars, restOfDl>>

SpecDownload == DownloadInit /\ [][DownloadNext]_vars

(***************************************************************************)
(* SpecLocks: MaxWorkers threads, each running passes and route            *)
(* operations one after the other, in every interleaving.                  *)
(***************************************************************************)
LocksInit ==
    /\ CoordInit /\ SeqInit
    /\ openai = OpenAIOff
    /\ listing = ListingPage(MaxIds)
    /\ items = <<>>
    /\ max_retries = DefaultMaxRetries
    /\ FetchQuiet
    /\ SetQuiet
    /\ StoreQuiet
    /\ ImgQuiet
    /\ RestOfLocksQuiet
    /\ lock_holder = [l \in LockNames |-> NoHolder]
    /\ wtodo = [w \in Workers |-> <<>>]
    /\ winside = [w \in Workers |-> "none"]
    /\ wnet = [w \in Workers |-> "none"]

LocksNext ==
    /\ \E w \in Workers :
         \/ WorkerCall(w) \/ WorkerAcquire(w) \/ WorkerBody(w) \/ WorkerRaise(w)
         \/ WorkerRelease(w) \/ WorkerSend(w) \/ WorkerRecv(w)
    /\ UNCHANGED <<coordVars, seqVars, fetchVars, setVars, storeVars, imgVars, restOfLocks>>

SpecLocks == LocksInit /\ [][LocksNext]_vars

(***************************************************************************)
(* SpecHeap: valuation passes over a store of MaxIds records of every      *)
(* valuation state, while another thread replaces records.                 *)
(***************************************************************************)
HeapInit ==
    /\ CoordInit /\ SeqInit
    /\ openai = OpenAIOff
    /\ listing = ListingPage(MaxIds)
    /\ items = <<>>
    /\ max_retries = DefaultMaxRetries
    /\ FetchQuiet
    /\ SetQuiet
    /\ StoreQuiet
    /\ ImgQuiet
    /\ RestOfHeapQuiet
    /\ heap \in {[i \in Ids |-> HeapRec(i, "old", 0, vals[i])] :
                   vals \in [Ids -> {"None", "pending", "completed"}]}
    /\ store_refs = [i \in Ids |-> i]
    /\ hlist = <<>>
    /\ hsnap = <<>>
    /\ hcopy = NoRef
    /\ hval = "None"
    /\ hnow = 1
    /\ hpc = "idle"

HeapNext ==
    /\ \/ HeapSnapshot \/ HeapForEach \/ HeapValuate \/ HeapCopy
       \/ HeapSet \/ HeapAddItem \/ HeapOtherAdd
    /\ UNCHANGED <<coordVars, seqVars, fetchVars, setVars, storeVars, imgVars, restOfHeap>>

SpecHeap == HeapInit /\ [][HeapNext]_vars

(***************************************************************************)
(* SpecPages: one call of fetch_multiple_pages(num_products) for every     *)
(* num_products from -MaxProducts to MaxProducts, every page size up to    *)
(* MaxPerPage, and every outcome of every page.                            *)
(***************************************************************************)
PagesInit ==
    /\ CoordInit /\ SeqInit
    /\ openai = OpenAIOff
    /\ listing = ListingPage(MaxIds)
    /\ items = <<>>
    /\ max_retries = DefaultMaxRetries
    /\ FetchQuiet
    /\ SetQuiet
    /\ StoreQuiet
    /\ ImgQuiet
    /\ RestOfPagesQuiet
    /\ m_products \in -MaxProducts..MaxProducts
    /\ m_per_page \in 1..MaxPerPage
    /\ m_num_pages = 0
    /\ m_page = 0
    /\ m_runs = <<>>
    /\ m_result = NoResult
    /\ mpc = "idle"

PagesNext ==
    /\ \/ MultiCall \/ MultiPollOnce \/ MultiPollOnceEnds \/ MultiReturn
    /\ UNCHANGED <<coordVars, seqVars, fetchVars, setVars, storeVars, imgVars, restOfPages>>

SpecPages == PagesInit /\ [][PagesNext]_vars

(***************************************************************************)
(* SpecSettings: update_settings called with one or two keys, and a reader  *)
(* thread that takes a snapshot with get_settings and keeps it.             *)
(***************************************************************************)
SettingsInit ==
    /\ CoordInit /\ SeqInit /\ UnitInit
    /\ openai = OpenAIOff
    /\ listing = ListingPage(MaxIds)
    /\ items = <<>>

SettingsNext ==
    /\ \/ get_settings
       \/ \E new_settings \in Updates : update_settings(new_settings)
    /\ UNCHANGED <<coordVars, seqVars, fetchVars, storeVars, imgVars, extraVars>>

SpecSettings == SettingsInit /\ [][SettingsNext]_vars

(***************************************************************************)
(* SpecStore: threads call add_item and item_exists on a new store (no      *)
(* products file yet); a write of the file may fail.                        *)
(***************************************************************************)
StoreInit ==
    /\ CoordInit /\ SeqInit /\ UnitInit
    /\ openai = OpenAIOff
    /\ listing = ListingPage(MaxIds)
    /\ items = <<>>

StoreNext ==
    /\ \E c \in Clients :
         \/ AddItemCall(c) \/ AddAcquire(c) \/ AddReplace(c)
         \/ SaveDatabase(c) \/ AddRelease(c)
         \/ ItemExistsCall(c) \/ ItemExistsAcquire(c) \/ ItemExistsReturn(c)
    /\ UNCHANGED <<botVars, pollVars, valVars, refreshVars, envVars>>
    /\ UNCHANGED <<seqVars, fetchVars, setVars, imgVars, extraVars>>

SpecStore == StoreInit /\ [][StoreNext]_vars

(***************************************************************************)
(* SpecNeed: trigger_valuations on a store loaded from a products file, of  *)
(* records with no valuation and with valuations of every status; the bot   *)
(* is not started, so the pass takes its list and ends.                     *)
(***************************************************************************)
Statuses == {"None", "pending", "completed", "error"}

RECURSIVE StoresOf(_)
StoresOf(ids) ==
    {<<>>} \cup UNION {{<<[k |-> i, v |-> StoreRec(i, st)]>> \o rest :
                          st \in Statuses, rest \in StoresOf(ids \ {i})} : i \in ids}

NeedInit ==
    /\ CoordInit /\ SeqInit /\ UnitInit
    /\ openai = OpenAIOn
    /\ listing = ListingPage(MaxIds)
    /\ items \in StoresOf(Ids)

NeedNext ==
    /\ \/ trigger_valuations
       \/ \E v \in ValPasses : ValSnapshot(v) \/ ValForEach(v)
    /\ UNCHANGED <<seqVars, unitVars>>

SpecNeed == NeedInit /\ [][NeedNext]_vars

(***************************************************************************)
(* SpecVal: the bot started once and stopped over a store of items without  *)
(* valuation; the valuation cycle, the passes trigger_valuations spawns,    *)
(* and the settings route enabling and disabling valuation and setting and  *)
(* clearing the api key at any time.                                        *)
(***************************************************************************)
ValInit ==
    /\ CoordInit /\ SeqInit /\ UnitInit
    /\ openai \in OpenAISettings
    /\ listing = ListingPage(MaxIds)
    /\ items = [i \in Ids |-> [k |-> i, v |-> StoreRec(i, "None")]]

ValNext ==
    /\ \/ StartOnce
       \/ Stop
       \/ \E v \in ValLoops : ValLoopStep(v) \/ ValWaitTimeout(v)
       \/ \E v \in ValPasses : ValStep(v)
       \/ trigger_valuations
       \/ SetOpenAIAny
    /\ UNCHANGED <<seqVars, unitVars>>

SpecVal == ValInit /\ [][ValNext]_vars

(***************************************************************************)
(* Spec: the coordinator started once and stopped, its two cycles, the     *)
(* passes trigger_valuations spawns and the settings route.                *)
(***************************************************************************)
Init ==
    /\ CoordInit /\ SeqInit /\ UnitInit
    /\ openai \in {OpenAIOn, OpenAIOff}
    /\ listing = ListingPage(MaxIds)
    /\ items = <<>>

Next ==
    /\ \/ StartOnce
       \/ Stop
       \/ Loops
       \/ \E v \in ValPasses : ValStep(v)
       \/ trigger_valuations
       \/ SetOpenAI
    /\ UNCHANGED <<seqVars, unitVars>>

Spec == Init /\ [][Next]_vars

(***************************************************************************)
(* SpecLife: start() and stop() called in any order, and the cycles, on a  *)
(* listing page of one item.                                               *)
(***************************************************************************)
LifeInit ==
    /\ CoordInit /\ SeqInit /\ UnitInit
    /\ openai \in {OpenAIOn, OpenAIOff}
    /\ listing = ListingPage(1)
    /\ items = <<>>

LifeNext ==
    /\ \/ Start
       \/ Stop
       \/ Loops
    /\ UNCHANGED <<seqVars, unitVars>>

SpecLife == LifeInit /\ [][LifeNext]_vars

(***************************************************************************)
(* FairSpec: the bot started once and stopped. A thread that can take a    *)
(* step takes it (every network call returns, a call of stop() runs to its *)
(* end); nothing says that a wait's interval ever elapses.                 *)
(***************************************************************************)
FairNext ==
    /\ \/ StartOnce
       \/ Stop
       \/ Loops
    /\ UNCHANGED <<seqVars, unitVars>>

FairSpec ==
    /\ LifeInit
    /\ [][FairNext]_vars
    /\ WF_vars(StopRun /\ UNCHANGED <<seqVars, unitVars>>)
    /\ \A p \in PollLoops : WF_vars(PollLoopStep(p) /\ UNCHANGED <<seqVars, unitVars>>)
    /\ \A v \in ValLoops : WF_vars(ValLoopStep(v) /\ UNCHANGED <<seqVars, unitVars>>)

(***************************************************************************)
(* SpecFail: the bot started once and stopped, with unexpected exceptions   *)
(* inside the passes. A thread that can take a step takes it and the        *)
(* interval of a wait elapses (Event.wait(interval) returns after interval  *)
(* seconds at the latest); nothing says that an exception is ever raised.   *)
(***************************************************************************)
PollFairStep(p) == PollLoopStep(p) \/ PollExcept(p) \/ PollWaitTimeout(p)

ValFairStep(v) == ValLoopStep(v) \/ ValExcept(v) \/ ValWaitTimeout(v)

FailNext ==
    /\ \/ StartOnce
       \/ Stop
       \/ \E p \in PollLoops : PollFairStep(p) \/ PollRaise(p)
       \/ \E v \in ValLoops : ValFairStep(v) \/ ValRaise(v) \/ ValRaiseItem(v)
       \/ SetOpenAI
    /\ UNCHANGED <<seqVars, unitVars>>

SpecFail ==
    /\ LifeInit
    /\ [][FailNext]_vars
    /\ WF_vars(StopRun /\ UNCHANGED <<seqVars, unitVars>>)
    /\ \A p \in PollLoops : WF_vars(PollFairStep(p) /\ UNCHANGED <<seqVars, unitVars>>)
    /\ \A v \in ValLoops : WF_vars(ValFairStep(v) /\ UNCHANGED <<seqVars, unitVars>>)

(***************************************************************************)
(* SpecStop: the bot started once and stopped while its cycles are at      *)
(* work, on a listing page of MaxIds items: the store is empty, or holds   *)
(* the items without a valuation. Valuation is enabled. The fairness is    *)
(* the one of FairSpec.                                                    *)
(***************************************************************************)
StopInit ==
    /\ CoordInit /\ SeqInit /\ UnitInit
    /\ openai = OpenAIOn
    /\ listing = ListingPage(MaxIds)
    /\ items \in {<<>>, [i \in Ids |-> [k |-> i, v |-> StoreRec(i, "None")]]}

StopNext ==
    /\ \/ StartOnce
       \/ Stop
       \/ Loops
    /\ UNCHANGED <<seqVars, unitVars>>

SpecStop ==
    /\ StopInit
    /\ [][StopNext]_vars
    /\ WF_vars(StopRun /\ UNCHANGED <<seqVars, unitVars>>)
    /\ \A p \in PollLoops : WF_vars(PollLoopStep(p) /\ UNCHANGED <<seqVars, unitVars>>)
    /\ \A v \in ValLoops : WF_vars(ValLoopStep(v) /\ UNCHANGED <<seqVars, unitVars>>)

(***************************************************************************)
(* SpecData: the bot started and left running; its two cycles, the         *)
(* /api/fetch route and the /api/refresh-all route work on the store.      *)
(***************************************************************************)
DataInit ==
    /\ CoordInit /\ SeqInit /\ UnitInit
    /\ openai = OpenAIOn
    /\ listing = ListingPage(MaxIds)
    /\ items = <<>>

DataNext ==
    /\ \/ StartOnce
       \/ Loops
       \/ FetchRoute \/ PollStep(FetchT)
       \/ refresh_all \/ RefreshStep
    /\ UNCHANGED <<seqVars, unitVars>>

SpecData == DataInit /\ [][DataNext]_vars

(***************************************************************************)
(* SpecStoreOps: the writers of the store at work on the running bot: the   *)
(* poll cycle, the valuation cycle, the thread of the /api/fetch route for  *)
(* fetch_multiple_pages (of one page or more), and the /api/refresh-all     *)
(* route. The listing page links to one item; the store    *)
(* was loaded with another item, found and valuated by a former run.        *)
(***************************************************************************)
StoreOpsNext ==
    /\ \/ StartOnce
       \/ Loops
       \/ FetchRouteMulti \/ MultiNextPage \/ PollStep(MultiT)
       \/ refresh_all \/ RefreshStep
    /\ UNCHANGED <<seqVars, unitVars>>

StoreOpsInit ==
    /\ CoordInit /\ SeqInit /\ UnitInit
    /\ openai = OpenAIOn
    /\ listing = ListingPage(1)
    /\ items = <<[k |-> MaxIds, v |-> StoreRec(MaxIds, "completed")]>>

SpecStoreOps == StoreOpsInit /\ [][StoreOpsNext]_vars

(***************************************************************************)
(* SpecSeq: the /api/fetch handler runs _poll_once again and again, one    *)
(* pass after the other and nothing else, against a listing page and       *)
(* detail pages that do not change; a fetch may fail. The store starts     *)
(* empty or with one item a former run found and valuated.                 *)
(***************************************************************************)
KnownRec(i) == [id |-> i, page |-> i, discovered_at |-> 0, updated_at |-> 0,
                valuation |-> "completed"]

SeqStores == {<<>>} \cup {<<[k |-> i, v |-> KnownRec(i)]>> : i \in Ids}

SeqInitAll ==
    /\ CoordInit /\ SeqInit /\ UnitInit
    /\ openai = OpenAIOff
    /\ listing = ListingPage(MaxIds)
    /\ items \in SeqStores

SeqCall ==
    /\ Len(seq_after) < MaxPasses
    /\ FetchRoute
    /\ UNCHANGED seqVars

\* a step of the pass, and what the history keeps of it
SeqStep ==
    /\ PollStep(FetchT)
    /\ LET failed == \/ ppc[FetchT] = "listing" /\ ppc'[FetchT] = "idle"
                     \/ ppc[FetchT] = "detail" /\ ppc'[FetchT] = "foreach"
           ended == ppc'[FetchT] = "idle"
       IN  IF ended
           THEN /\ seq_after' = Append(seq_after, items')
                /\ seq_clean' = Append(seq_clean, ~(seq_fail \/ failed))
                /\ seq_fail' = FALSE
           ELSE /\ seq_fail' = (seq_fail \/ failed)
                /\ UNCHANGED <<seq_after, seq_clean>>

SeqNext == (SeqCall \/ SeqStep) /\ UNCHANGED unitVars

SpecSeq == SeqInitAll /\ [][SeqNext]_vars

(***************************************************************************)
(* SpecRetry: the passes of SpecSeq, with the history of the detail        *)
(* fetches of each pass and of the pass before it.                         *)
(***************************************************************************)
RetryInit ==
    /\ CoordInit /\ SeqInit
    /\ openai = OpenAIOff
    /\ listing = ListingPage(MaxIds)
    /\ items \in SeqStores
    /\ max_retries = DefaultMaxRetries
    /\ FetchQuiet
    /\ SetQuiet
    /\ StoreQuiet
    /\ ImgQuiet
    /\ RestOfRetryQuiet
    /\ store_before = items
    /\ listed = "none"
    /\ fetched_cur = {}
    /\ failed_cur = {}
    /\ failed_prev = {}

\* a new pass begins
RetryCall ==
    /\ SeqCall
    /\ store_before' = items
    /\ listed' = "none"
    /\ fetched_cur' = {}
    /\ failed_cur' = {}
    /\ failed_prev' = failed_cur

\* a step of the pass, and what the history keeps of it
RetryStep ==
    /\ SeqStep
    /\ listed' = IF ppc[FetchT] # "listing" THEN listed
                 ELSE IF ppc'[FetchT] = "foreach" THEN "ok" ELSE "failed"
    /\ fetched_cur' = IF ppc[FetchT] = "detail"
                      THEN fetched_cur \cup {pcur[FetchT]} ELSE fetched_cur
    /\ failed_cur' = IF ppc[FetchT] = "detail" /\ ppc'[FetchT] # "upsert"
                     THEN failed_cur \cup {pcur[FetchT]} ELSE failed_cur
    /\ UNCHANGED <<store_before, failed_prev>>

RetryNext ==
    /\ RetryCall \/ RetryStep
    /\ UNCHANGED <<fetchVars, setVars, storeVars, imgVars, restOfRetry>>

SpecRetry == RetryInit /\ [][RetryNext]_vars

(***************************************************************************)
(* The claims                                                              *)
(***************************************************************************)

\* C1 (as amended): _poll_once fetches the detail page of, and upserts, only
\* an id for which item_exists was false at check time; so of two passes run
\* in sequence against unchanged pages the second leaves every record the
\* first left in the store as it is (updated_at included), and leaves the
\* whole store equal when no fetch of the first pass failed.
C1_PollIdempotent ==
    /\ \A p \in PollThreads :
         ppc[p] \in {"detail", "upsert"} => ~pchk[p] /\ ~DictHas(items, pcur[p])
    /\ \A n \in 2..Len(seq_after) :
         /\ \A i \in 1..Len(seq_after[n - 1]) :
              i <= Len(seq_after[n]) /\ seq_after[n][i] = seq_after[n - 1][i]
         /\ seq_clean[n - 1] => seq_after[n] = seq_after[n - 1]

\* C1 witness: two passes are over, no fetch of the first failed, and the
\* first inserted a new item
C1_Witness ==
    /\ Len(seq_after) >= 2
    /\ seq_clean[1]
    /\ \E i \in 1..Len(seq_after[1]) : seq_after[1][i].v.discovered_at > 0

\* C1 as stated: after the second of two passes run in sequence the store
\* equals the store after the first
C1_Original ==
    \A n \in 2..Len(seq_after) : seq_after[n] = seq_after[n - 1]

\* C2: in every state of the store each key has exactly one entry, and the
\* record of a key has that key as its id and was built from the detail page
\* fetched for that id, whatever the interleaving of poll passes, valuation
\* upserts and the refresh.
C2_IdIsKey ==
    /\ \A i, j \in 1..Len(items) : items[i].k = items[j].k => i = j
    /\ \A i \in 1..Len(items) :
         items[i].v.id = items[i].k /\ items[i].v.page = items[i].k

\* C2 witness: every listed item is stored, one has been valuated, and a
\* refresh has run to its end
C2_Witness ==
    /\ Len(items) = MaxIds
    /\ \E i \in 1..Len(items) : items[i].v.valuation # "None"
    /\ refreshes = 1 /\ rpc = "idle"

\* C3 as stated: at most one call of valuate_item is in flight, over the
\* valuation cycle and the passes trigger_valuations spawns
C3_OneInFlight ==
    Cardinality({v \in ValThreads : vpc[v] = "inflight"}) <= 1

\* C4: start() on the stopped bot sets running and spawns one poll cycle and
\* one valuation cycle; start() on the running bot and stop() on the stopped
\* bot change nothing; stop() on the running bot clears running and sets the
\* stop event before it joins the threads.
C4_StartStop ==
    /\ [](ctl = "idle" =>
            /\ Cardinality({p \in PollLoops : ppc[p] # "unborn"}) = starts
            /\ Cardinality({v \in ValLoops : vpc[v] # "unborn"}) = starts
            /\ poll_thread = starts /\ valuation_thread = starts)
    /\ [](ctl = "stop_join" => ~running /\ stop_event)
    /\ [][/\ (ctl = "start" /\ running /\ ctl' # "start") =>
               /\ ctl' = "idle"
               /\ UNCHANGED <<running, stop_event, poll_thread, valuation_thread,
                              starts, pollVars, valVars>>
          /\ (ctl = "stop" /\ ~running /\ ctl' # "stop") =>
               /\ ctl' = "idle"
               /\ UNCHANGED <<running, stop_event, poll_thread, valuation_thread,
                              starts, pollVars, valVars>>
          /\ (ctl = "start" /\ ~running /\ ctl' # "start") =>
               running' /\ starts' = starts + 1
          /\ (ctl = "start_val" /\ ctl' = "idle") => running'
          /\ (ctl = "stop" /\ running /\ ctl' # "stop") => ~running'
         ]_vars

\* C4 witness: start() is called on the bot that a second start() has set
\* running
C4_Witness == ctl = "start" /\ running /\ starts = 2

AllCyclesEnded ==
    /\ \A p \in PollLoops : ppc[p] \in {"unborn", "done"}
    /\ \A v \in ValLoops : vpc[v] \in {"unborn", "done"}

\* C5: once stop() has cleared running, both cycles end unless start() is
\* called again; a cycle waiting between two iterations can leave its wait as
\* soon as the stop event is set, and a cycle that finds the bot stopped at
\* its loop condition starts no iteration.
C5_StopEndsCycles ==
    /\ (~running /\ starts > 0) ~> (running \/ AllCyclesEnded)
    /\ [](\A p \in PollLoops :
            ppc[p] = "wait" /\ stop_event => ENABLED PollWaitWoken(p))
    /\ [](\A v \in ValLoops :
            vpc[v] = "wait" /\ stop_event => ENABLED ValWaitWoken(v))
    /\ [][/\ \A p \in PollLoops :
               ppc[p] = "loop" /\ (~running \/ stop_event)
                 => ppc'[p] \in {"loop", "done"}
          /\ \A v \in ValLoops :
               vpc[v] = "loop" /\ (~running \/ stop_event)
                 => vpc'[v] \in {"loop", "done"}
         ]_vars

\* C5 witness: the bot was started and stopped, and both cycles have ended
C5_Witness ==
    /\ ctl = "idle" /\ ~running /\ stop_event /\ starts = 1
    /\ ppc[1] = "done" /\ vpc[1] = "done"

(***************************************************************************)
(* The history of one fetch                                                *)
(***************************************************************************)
Gets == {i \in 1..Len(fetch_log) : fetch_log[i].ev = "get"}
FailedGets == {i \in Gets : ~fetch_log[i].ok}
Sleeps == {i \in 1..Len(fetch_log) : fetch_log[i].ev = "sleep"}

RECURSIVE TotalWait(_)
TotalWait(n) == IF n = 0 THEN 0
                ELSE TotalWait(n - 1) + (IF n \in Sleeps THEN fetch_log[n].t ELSE 0)

RECURSIVE SumPow(_)
SumPow(k) == IF k = 0 THEN 0 ELSE SumPow(k - 1) + 2 ^ (k - 1)

\* C6: a fetch whose every attempt fails sends exactly max_retries + 1
\* requests, sleeps between two requests only (the log alternates request,
\* wait, request, ... and ends with a request), and _fetch_with_retries then
\* returns None, which fetch_listing_page / fetch_item_page return as None.
C6_AllAttemptsFail ==
    (fpc \in {"return", "done"} /\ FailedGets = Gets) =>
        /\ Cardinality(Gets) = max_retries + 1
        /\ Len(fetch_log) = 2 * max_retries + 1
        /\ \A i \in 1..Len(fetch_log) :
             fetch_log[i].ev = (IF i % 2 = 1 THEN "get" ELSE "sleep")
        /\ response = "None"
        /\ fpc = "done" => fetch_result = "None"

C6_Witness ==
    /\ fpc = "done" /\ max_retries = 2 /\ url.path = "item"
    /\ Cardinality(FailedGets) = 3 /\ fetch_result = "None"

\* C7: a fetch whose first k attempts fail (k <= max_retries) and whose next
\* attempt succeeds returns the response after exactly k + 1 requests; the
\* wait after failed attempt a (from 0) is 2^a and the waits sum to
\* 2^0 + ... + 2^(k-1), which is 0 for k = 0.
C7_BackoffSum ==
    (fpc \in {"return", "done"} /\ FailedGets # Gets) =>
        LET k == Cardinality(FailedGets) IN
        /\ k <= max_retries
        /\ Cardinality(Gets) = k + 1
        /\ fetch_log[Len(fetch_log)] = [ev |-> "get", ok |-> TRUE, t |-> 0]
        /\ \A a \in 0..(k - 1) :
             /\ fetch_log[2 * a + 1] = [ev |-> "get", ok |-> FALSE, t |-> 0]
             /\ fetch_log[2 * a + 2] = [ev |-> "sleep", ok |-> FALSE, t |-> 2 ^ a]
        /\ Cardinality(Sleeps) = k
        /\ TotalWait(Len(fetch_log)) = SumPow(k)
        /\ response = "Response"
        /\ fpc = "done" => fetch_result = "text"

C7_Witness ==
    /\ fpc = "done" /\ max_retries = 3 /\ url.path = "search"
    /\ Cardinality(FailedGets) = 3 /\ fetch_result = "text"
    /\ TotalWait(Len(fetch_log)) = 7

\* an update the claim calls invalid: poll_interval_seconds below 10 or not a
\* number, or request_timeout_seconds below 1 or not a number
InvalidUpdate(new_settings) ==
    \E i \in 1..Len(new_settings) :
        \/ /\ new_settings[i].k = "poll_interval_seconds"
           /\ \/ new_settings[i].v.t \in {"str", "dict"}
              \/ new_settings[i].v.t = "num" /\ new_settings[i].v.n < 10
        \/ /\ new_settings[i].k = "request_timeout_seconds"
           /\ \/ new_settings[i].v.t \in {"str", "dict"}
              \/ new_settings[i].v.t = "num" /\ new_settings[i].v.n < 1

\* get_settings() shows the value the update gave to the key (for a nested
\* update: the nested keys of the update carry their new values)
ShowsNewValue(entry) ==
    LET got == View(settings, objs)[entry.k]
    IN  IF entry.v.t = "dict"
        THEN got.t = "dict" /\ \A nk \in DOMAIN entry.v.d :
                                   nk \in DOMAIN got.d /\ got.d[nk] = entry.v.d[nk]
        ELSE got = entry.v

\* C8: an update with an invalid poll_interval_seconds or
\* request_timeout_seconds is rejected with an error and leaves every stored
\* setting as it was; any other update succeeds and get_settings then returns
\* the new value of each key of the update.
C8_UpdateContract ==
    upd_result # "none" =>
        IF InvalidUpdate(upd_new)
        THEN upd_result = "ValueError" /\ View(settings, objs) = upd_prev
        ELSE upd_result = "True" /\ \A i \in 1..Len(upd_new) : ShowsNewValue(upd_new[i])

\* the part of C8 that holds: the rejected updates, and the updates that
\* returned True
C8_Validation ==
    /\ upd_result = "ValueError" <=> (upd_result # "none" /\ InvalidUpdate(upd_new))
    /\ upd_result = "ValueError" => View(settings, objs) = upd_prev
    /\ upd_result = "True" => \A i \in 1..Len(upd_new) : ShowsNewValue(upd_new[i])

\* C9: every value readable through a snapshot get_settings returned, top
\* level and nested, stays what it was when the snapshot was taken, whatever
\* update_settings does afterwards.
C9_SnapshotImmutable ==
    snap_taken => View(snap, objs) = snap_view

\* the top level of a snapshot does stay as it was
C9_TopLevel ==
    snap_taken =>
        \A key \in DOMAIN snap :
            snap[key].t # "ref" => View(snap, objs)[key] = snap_view[key]

\* the positions of a thread inside a `with self.lock` block
InLock == {"add_replace", "add_save", "add_unlock", "exists_read"}

\* C10: when add_item(id, record) returns (the end of its with block), the
\* document in memory maps id to record, the products file holds the same
\* items and the meta.updated_at this call took off the clock, so the file
\* equals the document in memory; and while a thread is between the
\* replacement in memory and the write, no other thread is inside a block
\* of the store lock.
C10_DurableUpsert ==
    /\ \A c \in Clients :
         cpc[c] = "add_unlock" =>
            /\ DictHas(items, carg[c].item_id)
            /\ DictGet(items, carg[c].item_id) = carg[c].item_data
            /\ meta_updated_at = now - 1
            /\ products_file = Document(items, meta_updated_at)
    /\ \A c \in Clients, d \in Clients :
         (c # d /\ cpc[c] = "add_save") => cpc[d] \notin InLock

\* the part of C10 that holds: the memory side of add_item, and the lock
C10_MemoryAndLock ==
    /\ \A c \in Clients :
         cpc[c] = "add_unlock" =>
            /\ DictHas(items, carg[c].item_id)
            /\ DictGet(items, carg[c].item_id) = carg[c].item_data
            /\ meta_updated_at = now - 1
    /\ \A c \in Clients, d \in Clients :
         (c # d /\ cpc[c] \in InLock) => cpc[d] \notin InLock
    /\ \A c \in Clients : cpc[c] \in InLock <=> db_lock = c

\* C11: an unexpected exception inside _poll_once or _run_valuations is
\* caught by the loop that called it. The step that raises and the except
\* clause leave the other cycle, the store and the coordinator as they are;
\* the except clause leads to the loop's wait; and from the except clause
\* the cycle begins another iteration unless the bot is stopped meanwhile.
C11_CyclesSurvive ==
    /\ \A p \in PollLoops :
         (ppc[p] = "except") ~> (ppc[p] = "listing" \/ ~LoopCondition)
    /\ \A v \in ValLoops :
         (vpc[v] = "except") ~> (vpc[v] = "enabled" \/ ~LoopCondition)
    /\ [][/\ \A p \in PollLoops :
               /\ (ppc[p] = "except" /\ ppc'[p] # "except") => ppc'[p] = "wait"
               /\ (ppc[p] = "except") # (ppc'[p] = "except") =>
                     UNCHANGED <<vpc, vlist, items, running, stop_event>>
          /\ \A v \in ValLoops :
               /\ (vpc[v] = "except" /\ vpc'[v] # "except") => vpc'[v] = "wait"
               /\ (vpc[v] = "except") # (vpc'[v] = "except") =>
                     UNCHANGED <<ppc, ptodo, items, running, stop_event>>]_vars

C11_Witness ==
    /\ running /\ ~stop_event
    /\ ppc[1] = "except" /\ vpc[1] \in {"call", "inflight"}

\* C12: the list get_items_needing_valuation returns (the items_to_valuate a
\* pass takes) holds exactly the entries of the store whose valuation is
\* absent or has the status pending, in store order: an item without
\* valuation is in it, an item with the status completed or error is not.
C12_NeedingValuation ==
    [][\A v \in ValThreads :
          (vpc[v] = "snapshot" /\ vpc'[v] # "snapshot") =>
             /\ \A i \in 1..Len(items) :
                  /\ items[i].v.valuation \in {"None", "pending"} =>
                        \E j \in 1..Len(vlist'[v]) : vlist'[v][j] = items[i]
                  /\ items[i].v.valuation \in {"completed", "error"} =>
                        \A j \in 1..Len(vlist'[v]) : vlist'[v][j].k # items[i].k
             /\ \A j \in 1..Len(vlist'[v]) :
                  \E i \in 1..Len(items) : vlist'[v][j] = items[i]
             /\ \A j \in 1..Len(vlist'[v]), l \in 1..Len(vlist'[v]) :
                  j # l => vlist'[v][j].k # vlist'[v][l].k]_vars

C12_Witness ==
    \E v \in ValPasses :
        /\ vpc[v] = "foreach"
        /\ Len(items) = 2 /\ Len(vlist[v]) = 1
        /\ vlist[v][1].v.valuation = "pending"
        /\ \E i \in 1..Len(items) : items[i].v.valuation = "completed"

\* C13: the set of ids in the store never shrinks: no step of a poll pass,
\* a multi-page fetch, a valuation pass or the refresh-all task removes an
\* id, and no step makes the store shorter.
C13_IdsNeverShrink ==
    [][/\ DictKeys(items) \subseteq DictKeys(items')
       /\ Len(items) <= Len(items')]_vars

C13_Witness ==
    /\ Len(items) = 2
    /\ refreshes = 1 /\ rpc = "idle"
    /\ ppc[MultiT] = "page" /\ page_num = 2
    /\ \E i \in 1..Len(items) : items[i].k = 1 /\ items[i].v.valuation # "None"

\* C14: the discovered_at of an id in the store never changes: every step
\* leaves the discovered_at of every stored id as it is.
C14_DiscoveredOnce ==
    [][\A i \in 1..Len(items), j \in 1..Len(items') :
          items'[j].k = items[i].k =>
             items'[j].v.discovered_at = items[i].v.discovered_at]_vars

\* C15: from the default settings on, whatever update_settings is called
\* with, the stored poll_interval_seconds is a number >= 10 and the stored
\* request_timeout_seconds is a number >= 1.
C15_IntervalsInRange ==
    /\ settings["poll_interval_seconds"].t = "num"
    /\ settings["poll_interval_seconds"].n >= 10
    /\ settings["request_timeout_seconds"].t = "num"
    /\ settings["request_timeout_seconds"].n >= 1

\* the part of C15 that holds: neither setting is ever a string, a dict or a
\* number below its bound
C15_NeverBelow ==
    /\ settings["poll_interval_seconds"].t \in {"num", "nan"}
    /\ settings["poll_interval_seconds"].t = "num" =>
          settings["poll_interval_seconds"].n >= 10
    /\ settings["request_timeout_seconds"].t \in {"num", "nan"}
    /\ settings["request_timeout_seconds"].t = "num" =>
          settings["request_timeout_seconds"].n >= 1

(***************************************************************************)
(* Valuation disabled, failing, and triggered by hand                      *)
(***************************************************************************)
\* valuation is disabled or no api credential is configured
ValuationOff == ~openai.enabled \/ openai.api_key \in {"", " "}

\* a call of the external API is in progress
CallInFlight == \E v \in ValThreads : vpc[v] = "inflight"

\* C16: while valuation is disabled or no api credential is configured,
\* valuate_item returns without calling the external API and the pass moves
\* on to its next item, and no step of a valuation pass writes the item
\* store, except the store of a result whose call was made before valuation
\* was disabled; this holds too when valuation is disabled in the middle of
\* a pass.
C16_DisabledNoWrite ==
    [][/\ \A v \in ValThreads :
            (ValuationOff /\ vpc[v] = "call" /\ vpc'[v] # "call")
                => /\ vpc'[v] = "foreach"
                   /\ vlist'[v] = Tail(vlist[v])
                   /\ items' = items
       /\ (ValuationOff /\ ~CallInFlight) => items' = items]_vars

\* a pass that found valuation disabled at its first item and is at its
\* second, the store as it was
C16_Witness ==
    \E v \in ValThreads :
        /\ ValuationOff
        /\ vpc[v] = "call"
        /\ Len(vlist[v]) = 1
        /\ \A i \in 1..Len(items) : items[i].v.valuation = "None"

\* C17: a call of the external API that ends, with a valuation or with a
\* failure, never ends the pass: the result, status error on a failure, is
\* stored on the item, nothing else of the record but updated_at changes,
\* and the pass goes on to its next item.
C17_ErrorStored ==
    [][\A v \in ValThreads :
          (vpc[v] = "inflight" /\ vpc'[v] # "inflight")
              => LET item == Head(vlist[v])
                     stored == DictGet(items', item.k)
                 IN  /\ vpc'[v] = "foreach"
                     /\ vlist'[v] = Tail(vlist[v])
                     /\ DictHas(items', item.k)
                     /\ stored.valuation \in {"completed", "error"}
                     /\ stored = [item.v EXCEPT !.valuation = stored.valuation,
                                                !.updated_at = now]]_vars

\* a pass that stored an error on its first item and is calling the API for
\* its second
C17_Witness ==
    \E v \in ValThreads :
        /\ vpc[v] = "inflight"
        /\ Len(vlist[v]) = 1
        /\ \E i \in 1..Len(items) :
              items[i].k # Head(vlist[v]).k /\ items[i].v.valuation = "error"

\* the threads trigger_valuations has spawned
Spawned == {v \in ValPasses : vpc[v] # "unborn"}

\* C18: a call of trigger_valuations returns not started and spawns
\* nothing exactly when valuation is disabled or the api credential is
\* empty; otherwise it spawns one pass, which has not taken a step when the
\* call returns started.
C18_TriggerContract ==
    [][(triggers' # triggers \/ last_trigger' # last_trigger) =>
          IF ValuationOff
          THEN /\ last_trigger' = "not_started"
               /\ triggers' = triggers
               /\ vpc' = vpc
          ELSE /\ last_trigger' = "started"
               /\ triggers' = triggers + 1
               /\ \E v \in ValPasses \ Spawned :
                     /\ vpc' = [vpc EXCEPT ![v] = "snapshot"]
                     /\ vlist'[v] = << >>
               /\ items' = items]_vars

\* a refused call after a started one whose pass has not moved
C18_Witness ==
    /\ last_trigger = "not_started"
    /\ triggers = 1
    /\ \E v \in ValPasses : vpc[v] = "snapshot"

(***************************************************************************)
(* The images of a record                                                  *)
(***************************************************************************)
AllowedExtensions == {".jpg", ".jpeg", ".png", ".webp"}
Denylisted ==
    {"banner", "logo", "icon", "avatar", "thumbnail", "watermark", "overlay"}

\* the URL holds an allowed image-file extension and no denylisted word
Filtered(u) ==
    /\ \E i \in 1..Len(u) : u[i] \in AllowedExtensions
    /\ \A i \in 1..Len(u) : u[i] \notin Denylisted

\* C19: every URL that extract_product_details places in images holds an
\* allowed image-file extension and no denylisted ad/UI word, for every
\* page and in both variants of the bot.
C19_ImagesFiltered ==
    xpc = "return" => \A i \in 1..Len(images) : Filtered(images[i])

\* what holds: the images of toribot_base.py are filtered
C19_BaseFiltered ==
    (xpc = "return" /\ variant = "base")
        => \A i \in 1..Len(images) : Filtered(images[i])

\* the pattern tiers of each variant, in priority order: the sets of keys
\* and attributes a tier looks at
Tiers ==
    IF variant = "base"
    THEN <<{"mainImage", "imageUrl", "productImage"}, {"data-src", "src"}, {"image"}>>
    ELSE <<{"image"}, {"imageUrl"}, {"data-src", "src"}>>

\* the URLs the extractor placed in images for some page are the accepted
\* ones: a URL of the page that is in images
Accepted(u) == \E i \in 1..Len(images) : images[i] = u

\* the scan: tier after tier, the accepted URLs of the tags of the tier in
\* page order
TierScan ==
    Concat([t \in 1..Len(Tiers) |->
               LET tags == SelectSeq(detail_html,
                               LAMBDA tag : tag.attr \in Tiers[t] /\ Accepted(tag.url))
               IN  [i \in 1..Len(tags) |-> tags[i].url]],
           Len(Tiers))

\* the first n distinct entries of a sequence, in its order
RECURSIVE FirstDistinct(_, _)
FirstDistinct(seq, n) ==
    IF seq = << >> \/ n = 0 THEN << >>
    ELSE <<Head(seq)>> \o
         FirstDistinct(SelectSeq(Tail(seq), LAMBDA u : u # Head(seq)), n - 1)

\* C20: images holds at most 5 URLs, no URL twice, in first-seen order of
\* the pattern scan, tiers in priority order and the matches of a tier in
\* page order.
C20_FirstSeenOrder ==
    xpc = "return" =>
        /\ Len(images) <= 5
        /\ \A i, j \in 1..Len(images) : images[i] = images[j] => i = j
        /\ images = FirstDistinct(TierScan, Len(images))

\* what holds in both variants: at most 5 URLs, no URL twice
C20_AtMostFiveDistinct ==
    xpc = "return" =>
        /\ Len(images) <= 5
        /\ \A i, j \in 1..Len(images) : images[i] = images[j] => i = j

\* what holds in toribot_base.py: images is in first-seen order of the
\* scan that goes pattern after pattern, each in page order, and holds
\* every URL of that scan when there are at most 5
C20_BasePatternOrder ==
    (xpc = "return" /\ variant = "base") =>
        LET scan == ScanImages(detail_html)
            distinct == {scan[i] : i \in 1..Len(scan)}
            first(u) == CHOOSE i \in 1..Len(scan) :
                            scan[i] = u /\ \A j \in 1..(i - 1) : scan[j] # u
        IN  /\ Len(images) = Min(Cardinality(distinct), 5)
            /\ \A i \in 1..Len(images) : images[i] \in distinct
            /\ \A i, j \in 1..Len(images) :
                  i < j => first(images[i]) < first(images[j])
            /\ \A u \in distinct :
                  Accepted(u) \/ \A i \in 1..Len(images) : first(images[i]) < first(u)

(***************************************************************************)
(* The text fields of a record and the failure of an extraction            *)
(***************************************************************************)
\* the extraction returned from its try
ReturnedNormally ==
    dpc = "return" /\ details.errors # <<"Exception during extraction">>

\* the cleaned capture of the first pattern, in priority order, whose
\* cleaned capture is not empty; absent when there is none
FirstNonEmpty(matches) ==
    LET good == {p \in 1..Len(matches) :
                    matches[p].hit /\ _clean_text(matches[p].text) # NoText}
    IN  IF good = {} THEN NoText
        ELSE _clean_text(matches[CHOOSE p \in good : \A q \in good : p <= q].text)

\* C21: each of description, location and seller is the cleaned capture of
\* the first pattern, in priority order, that yields a non-empty value; a
\* pattern that matches with an empty value does not stop a later pattern
\* from supplying the field.
C21_FirstNonEmptyWins ==
    ReturnedNormally =>
        /\ details.description = FirstNonEmpty(dhtml.description)
        /\ details.location = FirstNonEmpty(dhtml.location)
        /\ details.seller = FirstNonEmpty(dhtml.seller)

\* the first pattern, in priority order, that matches
FirstHit(matches) ==
    LET hits == {p \in 1..Len(matches) : matches[p].hit}
    IN  IF hits = {} THEN NoMatch
        ELSE matches[CHOOSE p \in hits : \A q \in hits : p <= q]

\* what holds: each field is the cleaned capture of the first pattern that
\* matches, absent when that capture is empty after cleaning
C21_FirstMatchWins ==
    ReturnedNormally =>
        /\ details.description = _clean_text(FirstHit(dhtml.description).text)
        /\ details.location = _clean_text(FirstHit(dhtml.location).text)
        /\ details.seller = _clean_text(FirstHit(dhtml.seller).text)

\* C22: an error raised by any step of the extraction does not reach the
\* caller: the function returns a record with the given id and url, title,
\* description, location and seller absent, images and image_files empty,
\* valuation absent, and one entry in errors that describes the exception.
C22_NeverRaises ==
    [][(dpc = "except" /\ dpc' # "except") =>
          /\ dpc' = "return"
          /\ details'.id = did /\ details'.url = RecordUrl(did)
          /\ details'.title = NoText /\ details'.description = NoText
          /\ details'.location = NoText /\ details'.seller = NoText
          /\ details'.images = << >> /\ details'.image_files = << >>
          /\ details'.valuation = "None"
          /\ Len(details'.errors) = 1
          /\ details'.errors[1] = "Exception during extraction"]_vars

\* an extraction that raised after it had a title and an image, returned
C22_Witness ==
    /\ dpc = "return"
    /\ details.errors = <<"Exception during extraction">>
    /\ dlocals.title # NoText
    /\ dlocals.images # << >>

(***************************************************************************)
(* The ids of a listing page                                               *)
(***************************************************************************)
\* the ids that occur in an item link of the page
LinkedIds ==
    IF link_html.missing THEN {}
    ELSE {link_html.links[i] : i \in 1..Len(link_html.links)} \ {NoId}

\* C23: extract_product_ids returns each id that occurs in an item link of
\* the page exactly once, whatever the number of its occurrences, returns
\* nothing else, and returns an empty collection for an empty or missing
\* page.
C23_EachIdOnce ==
    lpc = "return" =>
        /\ \A id \in LinkedIds :
              Cardinality({i \in 1..Len(product_ids) : product_ids[i] = id}) = 1
        /\ \A i \in 1..Len(product_ids) : product_ids[i] \in LinkedIds
        /\ (link_html.missing \/ link_html.links = << >>) => product_ids = << >>

\* a page with the links 1, 2, 1 gave a list of two ids
C23_Witness ==
    /\ lpc = "return"
    /\ ~link_html.missing
    /\ Len(link_html.links) >= 3
    /\ link_html.links[1] = link_html.links[3]
    /\ link_html.links[1] # NoId
    /\ Len(product_ids) = 2

(***************************************************************************)
(* The prices of a valuation                                               *)
(***************************************************************************)
\* the places of the text where the label is followed by a number
Numbered(label) ==
    {i \in 1..Len(valuation_text) :
        valuation_text[i].label = label /\ valuation_text[i].num >= 0}

\* the number at the first of some places
FirstNumber(places) ==
    valuation_text[CHOOSE i \in places : \A j \in places : i <= j].num

\* the label occurs in the text
HasLabel(label) ==
    \E i \in 1..Len(valuation_text) : valuation_text[i].label = label

\* C24: price_new is the number after the HINTA_UUTENA label, absent when
\* the label is missing; price_current is the number after ARVO_NYT when
\* there is one, otherwise the number after the legacy ARVO label when there
\* is one, otherwise absent; the legacy label never overrides an ARVO_NYT
\* value, and the status is completed whatever labels are missing.
C24_PriceParsing ==
    tpc = "return" =>
        /\ parsed.status = "completed"
        /\ parsed.price_new =
              IF Numbered("HINTA_UUTENA") = {} THEN NoPrice
              ELSE FirstNumber(Numbered("HINTA_UUTENA"))
        /\ ~HasLabel("HINTA_UUTENA") => parsed.price_new = NoPrice
        /\ parsed.price_current =
              IF Numbered("ARVO_NYT") # {} THEN FirstNumber(Numbered("ARVO_NYT"))
              ELSE IF Numbered("ARVO") # {} THEN FirstNumber(Numbered("ARVO"))
              ELSE NoPrice
        /\ (~HasLabel("ARVO_NYT") /\ ~HasLabel("ARVO"))
              => parsed.price_current = NoPrice

\* an answer with ARVO_NYT: 0 and a legacy ARVO of another value, parsed
C24_Witness ==
    /\ tpc = "return"
    /\ Numbered("ARVO_NYT") # {} /\ FirstNumber(Numbered("ARVO_NYT")) = 0
    /\ Numbered("ARVO") # {} /\ FirstNumber(Numbered("ARVO")) > 0
    /\ ~HasLabel("HINTA_UUTENA")
    /\ parsed.price_current = 0

(***************************************************************************)
(* The terminal controller                                                 *)
(***************************************************************************)
\* a bot is recorded as running
Recorded == running_process # NoProc

\* the step launches a process
Launches == launched' = launched + 1

\* a call of start_bot made while a bot is recorded is refused: nothing is
\* launched and the controller is as it was
RefusedWhileRecorded ==
    /\ (Recorded /\ kpc = "menu" /\ kret' # kret) => kret' \in {"refused", "none", "stop_error"}
    /\ (kret # "refused" /\ kret' = "refused") =>
          UNCHANGED <<running_process, running_bot, alive, launched, kpc>>

\* C25 (as stated): at most one bot process at a time; start_bot is refused
\* with nothing launched and nothing changed while a bot is recorded; after
\* a bot has been started, another is started only after stop_bot has
\* returned the controller to idle (a start that failed does not count as a
\* bot started).
C25_AfterStopOnly ==
    [][/\ Launches => ~Recorded
       /\ RefusedWhileRecorded
       /\ (Launches /\ launched >= 1) => idled_by \in {"stop_bot", "start_bot"}]_vars

\* C25 (amended): at most one bot process is alive at a time and it is the
\* recorded one; start_bot is refused with nothing launched and nothing
\* changed while a bot is recorded; a bot after the first is started only
\* after the controller was returned to idle, by stop_bot, by view_status
\* that found the process terminated, or by start_bot that found it had
\* exited while starting.
C25_OneBotAtATime ==
    /\ [](Cardinality(alive) <= 1 /\ alive \subseteq {running_process})
    /\ [][/\ Launches => ~Recorded
          /\ RefusedWhileRecorded
          /\ (Launches /\ launched >= 1)
                => idled_by \in {"stop_bot", "view_status", "start_bot"}]_vars

\* the second bot running after the first was stopped, and a start refused
C25_Witness ==
    /\ launched = 2
    /\ running_bot = "Ostobotti"
    /\ running_process \in alive
    /\ idled_by = "stop_bot"
    /\ kret = "refused"


(***************************************************************************)
(* C26: in _poll_once, when the detail-page fetch of an id that is not in  *)
(* the store fails, the id is not inserted, the rest of the ids of the     *)
(* listing are still processed, and the next pass finds the id new and     *)
(* requests its detail page again; when the fetch of the listing page      *)
(* fails, the pass requests no detail page and leaves the store as it was. *)
(***************************************************************************)
ListedIds == {listing[i] : i \in 1..Len(listing)}

PassOver == ppc[FetchT] = "idle" /\ Len(seq_after) >= 1

\* a step in which the detail fetch of the current id fails
DetailFetchFails ==
    ppc[FetchT] = "detail" /\ ppc'[FetchT] # "upsert"

C26_FailedFetchRetried ==
    /\ [][DetailFetchFails =>
            /\ items' = items
            /\ ~DictHas(items', pcur[FetchT])
            /\ ptodo'[FetchT] = ptodo[FetchT]]_vars
    /\ [](PassOver /\ listed = "ok" =>
            /\ \A i \in ListedIds : DictHas(items, i) \/ i \in failed_cur
            /\ \A i \in failed_cur : ~DictHas(items, i)
            /\ failed_prev \subseteq fetched_cur)
    /\ [](listed = "failed" =>
            /\ PassOver
            /\ fetched_cur = {}
            /\ items = store_before)

\* a pass in which the detail fetch of the first id failed and the one of
\* the second succeeded, then a pass that fetched the first id again and
\* stored it
C26_Witness ==
    /\ PassOver
    /\ listed = "ok"
    /\ failed_prev # {}
    /\ \E i \in failed_prev : i \in fetched_cur /\ DictHas(items, i)
    /\ \E i \in ListedIds \ failed_prev :
         \E j \in failed_prev : j < i /\ DictHas(seq_after[Len(seq_after) - 1], i)

\* a pass whose listing fetch failed
C26_ListingWitness ==
    /\ PassOver
    /\ listed = "failed"
    /\ Len(seq_after) >= 2


(***************************************************************************)
(* C27: for every record a poll pass upserts, image_files holds exactly    *)
(* one filename for each URL among the first max_images_per_item entries   *)
(* of images whose download succeeded (the fetch succeeded and the bytes   *)
(* decoded as an image), in the order of images, so that its length is at  *)
(* most min(len(images), max_images_per_item); a failed download never     *)
(* prevents the upsert; image_files is empty when image download is        *)
(* disabled.                                                               *)
(***************************************************************************)
\* the filenames of the URLs of urls whose flag in good is set, in order
FilesOf(urls, good) ==
    LET ix == SelectSeq([i \in 1..Len(urls) |-> i], LAMBDA i : good[i])
    IN  [k \in 1..Len(ix) |-> Filename(DlItemId, ix[k] - 1, urls[ix[k]])]

\* the first n entries of a list: none of them when n is not positive
FirstEntries(seq, cap) ==
    IF cap.kind = "none" THEN seq
    ELSE IF cap.n <= 0 THEN <<>>
    ELSE SubSeq(seq, 1, Min(cap.n, Len(seq)))

Upserted == ipc = "done" /\ upserted.stored

C27_OnePerDecodedImage ==
    Upserted =>
      LET first == FirstEntries(upserted.images, max_images)
          good == [i \in 1..Len(first) |->
                     i <= Len(outcomes) /\ download_image_decoded(outcomes[i])]
      IN  /\ download_enabled => upserted.image_files = FilesOf(first, good)
          /\ (download_enabled /\ max_images.kind = "int") =>
                Len(upserted.image_files) <= Len(first)
          /\ ~download_enabled => upserted.image_files = <<>>

\* what holds: one filename for each URL of images[:max_images] that
\* download_image saved, in list order; no outcome of a download ends the
\* loop or the iteration of the pass; only a bound that is not a number
\* raises, before any download; nothing is downloaded when disabled
C27_OnePerSavedImage ==
    /\ [](Upserted =>
            LET tried == Slice(upserted.images, max_images)
                good == [i \in 1..Len(tried) |->
                           i <= Len(outcomes) /\ download_image(outcomes[i])]
            IN  /\ download_enabled =>
                     /\ Len(outcomes) = Len(tried)
                     /\ upserted.image_files = FilesOf(tried, good)
                /\ ~download_enabled =>
                     upserted.image_files = <<>> /\ outcomes = <<>>
                /\ upserted.images = item_images)
    /\ [](ipc = "raised" => max_images.kind = "str" /\ outcomes = <<>>)
    /\ [][outcomes' # outcomes => ipc' = "loop"]_vars

\* three images, a bound of two, the first download failed and the second
\* was saved: the record is upserted with the second file only
C27_Witness ==
    /\ Upserted
    /\ download_enabled
    /\ Len(upserted.images) = 3
    /\ max_images = IntCap(2)
    /\ outcomes = <<"fetch_failed", "saved">>
    /\ Len(upserted.image_files) = 1


(***************************************************************************)
(* C28: the store lock gives mutual exclusion over the item document (at   *)
(* most one thread is inside item_exists, add_item, get_item,              *)
(* get_all_items or get_items_needing_valuation at a time), it is released *)
(* on every path out of those operations, and no thread makes a network    *)
(* call (listing fetch, detail fetch, image download, valuation call)      *)
(* while holding it; the same holds for the settings lock.                 *)
(***************************************************************************)
InsideOpsOf(l) == IF l = "store" THEN StoreOps ELSE SettingsOps

C28_LockDiscipline ==
    /\ [](\A l \in LockNames :
            /\ \A w \in Workers, u \in Workers :
                 (winside[w] \in InsideOpsOf(l) /\ winside[u] \in InsideOpsOf(l)) => w = u
            /\ \A w \in Workers :
                 /\ lock_holder[l] = w <=> winside[w] \in InsideOpsOf(l)
                 /\ wnet[w] # "none" => lock_holder[l] # w
                 /\ wtodo[w] = <<>> => lock_holder[l] # w)
    /\ [][\A w \in Workers :
            (winside[w] # "none" /\ winside'[w] = "none") =>
               lock_holder'[LockOf(winside[w])] = NoHolder]_vars

\* one thread waits for the answer of the valuation API while another is
\* inside add_item, holding the store lock
C28_Witness ==
    \E w \in Workers, u \in Workers :
       /\ wnet[w] = "valuation"
       /\ winside[u] = "add_item"
       /\ lock_holder["store"] = u
       /\ lock_holder["settings"] = NoHolder


(***************************************************************************)
(* C29: a valuation pass never modifies a record that is reachable from    *)
(* the store outside add_item: for each item it builds a private copy of   *)
(* the record it got from get_items_needing_valuation, sets valuation and  *)
(* updated_at on the copy and upserts the copy, so every field of the      *)
(* stored record other than valuation and updated_at is the same after the *)
(* upsert as in the snapshot the pass read.                                *)
(***************************************************************************)
StoredRefs == {store_refs[i] : i \in DOMAIN store_refs}

\* the step of the pass that upserts
PassUpserts == hpc = "add" /\ hpc' = "foreach"

C29_CopyOnWrite ==
    /\ [][\A r \in StoredRefs : heap'[r] = heap[r]]_vars
    /\ [](hcopy # NoRef => hcopy \notin StoredRefs)
    /\ [][PassUpserts =>
            LET item_id == Head(hlist).k
                stored == heap'[store_refs'[item_id]]
                read == hsnap[item_id]
            IN  /\ stored.id = read.id
                /\ stored.title = read.title
                /\ stored.discovered_at = read.discovered_at
                /\ stored.valuation = hval
                /\ heap'[Head(hlist).ref] = read
                /\ \A j \in Ids \ {item_id} : store_refs'[j] = store_refs[j]]_vars

\* the pass has upserted its copy of a record that another thread had
\* replaced after the pass took its list: the stored record has the fields
\* the pass read and the new valuation, and the object the pass read is as
\* it was
C29_Witness ==
    /\ hpc = "foreach"
    /\ \E i \in Ids :
         /\ store_refs[i] > MaxIds
         /\ heap[store_refs[i]].title = "old"
         /\ heap[store_refs[i]].valuation = "completed"
         /\ heap[i] = hsnap[i]
         /\ \E r \in 1..Len(heap) : heap[r].id = i /\ heap[r].title = "new"


(***************************************************************************)
(* C30: fetch_multiple_pages(n) with a page size p > 0 computes the page   *)
(* count as the ceiling of n / p, runs the single-page pass once for each  *)
(* page index 1, 2, ..., count in increasing order and one at a time, goes *)
(* on to the next page when a page fails or raises, and always reports     *)
(* success with pages_fetched equal to the computed count whatever the     *)
(* pages did (0 pages for n <= 0).                                         *)
(***************************************************************************)
\* the least integer c with c * p >= n
Ceiling(n, p) ==
    CHOOSE c \in -(MaxProducts + 1)..(MaxProducts + 1) :
        c * p >= n /\ (c - 1) * p < n

Returned == mpc = "returned"

\* every page from 1 to count was run once, in increasing order
RanPages(count) ==
    /\ Len(m_runs) = IF count > 0 THEN count ELSE 0
    /\ \A i \in 1..Len(m_runs) : m_runs[i].page = i

C30_PagesRun ==
    /\ mpc # "idle" => m_num_pages = Ceiling(m_products, m_per_page)
    /\ mpc = "polling" => Len(m_runs) = m_page - 1
    /\ Returned =>
         /\ RanPages(Ceiling(m_products, m_per_page))
         /\ m_result.success
         /\ m_result.pages_fetched = Ceiling(m_products, m_per_page)
         /\ m_products <= 0 => m_result.pages_fetched <= 0 /\ m_runs = <<>>

\* four products at three a page: two pages, the first raised, the second
\* failed, and the call reports success with two pages fetched
C30_Witness ==
    /\ Returned
    /\ m_products = 4 /\ m_per_page = 3
    /\ m_runs = <<[page |-> 1, outcome |-> "raised"], [page |-> 2, outcome |-> "failed"]>>
    /\ m_result = [success |-> TRUE, pages_fetched |-> 2]


(***************************************************************************)
(* C31: a valuation pass valuates items only while the coordinator is      *)
(* Running: once stop() has set the running flag false, a pass of the      *)
(* valuation cycle makes at most one further call of the valuation client  *)
(* (for the item whose running check had already passed) and then ends     *)
(* without valuating the rest of its list.                                 *)
(***************************************************************************)
\* the clock of the model has given its last reading: a step that reads the
\* time cannot be taken
ClockRanOut == now > MaxClock

\* the positions of a valuation thread inside the loop of _run_valuations
InPass == {"foreach", "call", "inflight"}

C31_PassStopsWithFlag ==
    /\ [][\A v \in ValLoops :
            /\ (vpc[v] = "foreach" /\ vpc'[v] = "call") => running
            /\ (vpc[v] = "foreach" /\ ~running /\ vpc'[v] # "foreach") =>
                  /\ vpc'[v] = "wait"
                  /\ vlist'[v] = <<>>
                  /\ items' = items]_vars
    /\ \A v \in ValLoops :
         (~running /\ vpc[v] \in InPass) ~> (vpc[v] \notin InPass \/ ClockRanOut)

\* stop() has cleared the flag while the call for the first item of a list
\* of two was in flight; the pass has stored its result and ended, and the
\* second item has no valuation
C31_Witness ==
    /\ ~running
    /\ starts = 1
    /\ vpc[1] \in {"wait", "done"}
    /\ Len(items) = 2
    /\ items[1].v.valuation \in {"completed", "error"}
    /\ items[2].v.valuation = "None"

(***************************************************************************)
(* C32: after a stop request the poll cycle finishes only its current unit *)
(* of work, one id: once the running flag is false and the stop event is   *)
(* set, the pass in progress completes the id it is working on and starts  *)
(* no detail-page fetch for any further id of the listing that is not in   *)
(* the store.                                                              *)
(***************************************************************************)
StopRequested == ~running /\ stop_event

C32_NoFetchAfterStop ==
    [][\A p \in PollLoops :
         (StopRequested /\ ppc[p] = "foreach") => ppc'[p] # "detail"]_vars

\* what holds: the pass goes through the whole listing whatever the flag
\* and the event say, and the cycle ends at the next check of its loop
C32_PassRunsToItsEnd ==
    /\ [][\A p \in PollLoops :
            /\ (ppc[p] = "foreach" /\ ppc'[p] # "foreach") =>
                  IF ptodo[p] = <<>> THEN ppc'[p] = "wait" ELSE ppc'[p] = "detail"
            /\ (ppc[p] = "loop" /\ ~LoopCondition /\ ppc'[p] # "loop") => ppc'[p] = "done"]_vars
    /\ \A p \in PollLoops :
         (StopRequested /\ ppc[p] \notin {"unborn", "done"}) ~>
            (ppc[p] = "done" \/ ClockRanOut)

\* the pass is about to fetch the detail page of the second id although
\* the stop request was made while it was working on the first
C32_Witness ==
    /\ StopRequested
    /\ ppc[1] = "detail"
    /\ pcur[1] = 2
    /\ DictHas(items, 1)


(***************************************************************************)
(* C33: after any sequence of start() and stop() calls, at most one poll   *)
(* cycle task and at most one valuation cycle task are active at any time; *)
(* in particular, when stop() returns after its join timed out while a     *)
(* cycle was still busy, a following start() does not leave that old cycle *)
(* running alongside the newly spawned one.                                *)
(***************************************************************************)
ActivePollCycles == {p \in PollLoops : ppc[p] \notin {"unborn", "done"}}
ActiveValCycles == {v \in ValLoops : vpc[v] \notin {"unborn", "done"}}

C33_OneCycleEach ==
    /\ Cardinality(ActivePollCycles) <= 1
    /\ Cardinality(ActiveValCycles) <= 1

\* the cycles of the first start() have passed their loop check after the
\* second start() returned and are in a new iteration, next to the cycles
\* of the second start()
C33_OldCycleSurvives ==
    /\ ctl = "idle" /\ running /\ starts = 2
    /\ ppc[1] = "listing" /\ ppc[2] \in {"listing", "wait"}
    /\ vpc[1] = "enabled" /\ vpc[2] \in {"enabled", "wait"}


\* C34: a completed valuation is never lost: every step leaves every stored
\* id whose valuation has status completed with a completed valuation,
\* whichever of the poll cycle, a multi-page fetch, the valuation cycle and
\* the refresh-all task takes the step.
C34_CompletedKept ==
    [][\A i \in 1..Len(items) :
          items[i].v.valuation = "completed" =>
             \E j \in 1..Len(items') :
                /\ items'[j].k = items[i].k
                /\ items'[j].v.valuation = "completed"]_vars

\* the refresh-all task has gone through the store and the record that was
\* valuated is back to having no valuation
C34_RefreshedUnvaluated ==
    /\ refreshes = 1 /\ rpc = "idle"
    /\ \E i \in 1..Len(items) :
          items[i].k = MaxIds /\ items[i].v.valuation = "None"


\* the valuation stored for an id ("None" when the id is not stored)
StoredValuation(item_id) ==
    IF item_id \in DictKeys(items) THEN DictGet(items, item_id).valuation ELSE "None"

Results == {"completed", "error"}

BeforeAddItem == {"idle", "settings", "slice", "loop", "add", "raised"}

\* C36: the record of an id is in the store only after its processing is
\* over: while the pass is extracting or downloading, and after the
\* download raised, the id is not stored; the store changes for the id in
\* one step only, the add_item call, and by then every download attempt of
\* the list has been made (when downloading is enabled) and the stored
\* image_files is the list the downloads produced.
C36_StoredWhenComplete ==
    /\ [](ipc \in BeforeAddItem => upserted = NotUpserted)
    /\ [](ipc = "raised" => ~ENABLED PollAddItem)
    /\ [][upserted' # upserted =>
            /\ ipc = "add" /\ ipc' = "done"
            /\ upserted = NotUpserted
            /\ upserted'.stored
            /\ upserted'.image_files = image_files
            /\ download_enabled =>
                  /\ Len(outcomes) = Len(Slice(item_images, max_images))
                  /\ image_files = downloaded]_vars

\* an id with three images, no bound on their number: three downloads were
\* tried, two files were written, and then the record was stored
C36_Witness ==
    /\ ipc = "done" /\ upserted.stored
    /\ download_enabled
    /\ max_images = NoneCap
    /\ Len(item_images) = 3
    /\ Len(outcomes) = 3
    /\ Len(upserted.image_files) = 2


\* C37: a pass spawned by trigger_valuations that holds items needing
\* valuation does not end with them: from the head of its loop with a
\* non-empty list it goes on to the Valuation Client, whether the bot is
\* Running or Stopped.
C37_TriggeredPassValuates ==
    [][\A v \in ValPasses :
          (vpc[v] = "foreach" /\ vlist[v] # <<>>) => vpc'[v] = "call"]_vars

\* trigger_valuations returned started with the bot Stopped and an item
\* needing valuation in the store, and the spawned pass is over with the
\* item still needing valuation
C37_StoppedPassEnded ==
    /\ ~running /\ starts = 0
    /\ last_trigger = "started"
    /\ vpc[MaxStarts + 1] = "done"
    /\ get_items_needing_valuation # <<>>


\* C38: running_process and running_bot are both set or both unset in every
\* state, and start_bot answers that a bot is already running only when the
\* recorded process is alive.
C38_RefusesOnlyWhileAlive ==
    /\ []((running_process = NoProc) <=> (running_bot = "None"))
    /\ [][(kret' = "refused" /\ kret # "refused") => running_process \in alive]_vars

\* the one bot that was launched has exited on its own, and the start_bot
\* that followed was refused
C38_RefusedAfterExit ==
    /\ kpc = "menu" /\ kret = "refused"
    /\ launched = 1
    /\ running_process = 1
    /\ alive = {}
    /\ idled_by = "init"


\* the notes of a record
Notes(record) == {record.errors[i] : i \in 1..Len(record.errors)}

SellerNotes ==
    {"Seller info available but extraction failed (logged in user)",
     "Seller info not available (login required)"}

\* C39: in a record the try of extract_product_details returned, an absent
\* title, description, location or seller and an empty images list each
\* have their note in errors, and errors is absent exactly when the four
\* text fields are present and images is not empty.
C39_NoteForEachGap ==
    ReturnedNormally =>
        /\ details.title = NoText => "Failed to extract title" \in Notes(details)
        /\ details.description = NoText =>
              "Failed to extract description" \in Notes(details)
        /\ details.location = NoText =>
              "Failed to extract location" \in Notes(details)
        /\ details.seller = NoText => Notes(details) \cap SellerNotes # {}
        /\ details.images = << >> => "No images found" \in Notes(details)
        /\ details.errors = << >> <=>
              /\ details.title # NoText /\ details.description # NoText
              /\ details.location # NoText /\ details.seller # NoText
              /\ details.images # << >>

\* a page whose h1 holds nothing but blanks or tags, everything else found:
\* the record has no title and no errors
C39_TitleGapUnnoted ==
    /\ ReturnedNormally
    /\ dhtml.title.hit
    /\ details.title = NoText
    /\ details.errors = << >>

====
